---- MODULE Spec2Model ----
(***************************************************************************)
(* Layered installer of yippee (pkg/sync/build): Install walks the layers  *)
(* of targets, installs the repository packages of a layer with the        *)
(* package manager, builds the AUR packages of the layer with makepkg, and *)
(* installs the built archives.  Every external invocation (Show/Capture   *)
(* of the command runner) is one step of the model and is appended to      *)
(* `calls`, the counterpart of MockRunner.ShowCalls / CaptureCalls of the  *)
(* installer tests.                                                        *)
(***************************************************************************)
EXTENDS Integers, Sequences, FiniteSets, TLC

\* ------------------------------------------------------------------ bounds

\* Longest `targets` slice handed to Install.
MaxLayers == 2

\* ------------------------------------------------------- package universe

\* The packages of the installer tests: an explicit AUR target, a second
\* package of its base, an AUR make dependency of another base, and a
\* repository dependency.
PkgNames == {"yippee", "bob", "jellyfin-server", "linux"}

\* dep.InstallInfo of each package (Source, Reason, AURBase, SyncDBName).
Info ==
  [n \in PkgNames |->
     CASE n = "yippee"          -> [Source |-> "AUR",  Reason |-> "Explicit", AURBase |-> "yippee",   SyncDBName |-> ""]
       [] n = "bob"             -> [Source |-> "AUR",  Reason |-> "Dep",      AURBase |-> "yippee",   SyncDBName |-> ""]
       [] n = "jellyfin-server" -> [Source |-> "AUR",  Reason |-> "MakeDep",  AURBase |-> "jellyfin", SyncDBName |-> ""]
       [] n = "linux"           -> [Source |-> "Sync", Reason |-> "Dep",      AURBase |-> "",         SyncDBName |-> "core"]]

\* The archive makepkg --packagelist names for a package (captureOverride).
ArchiveOf ==
  [n \in PkgNames |->
     CASE n = "yippee"          -> "/testdir/yippee-91.0.0-1-x86_64.pkg.tar.zst"
       [] n = "bob"             -> "/testdir/bob-91.0.0-1-x86_64.pkg.tar.zst"
       [] n = "jellyfin-server" -> "/testdir/jellyfin-server-10.8.8-1-x86_64.pkg.tar.zst"
       [] n = "linux"           -> ""]

\* "<SyncDBName>/<name>", the target handed to pacman -S.
CompositeName ==
  [n \in PkgNames |->
     CASE n = "linux" -> "core/linux"
       [] OTHER       -> n]

AURPkgs == {n \in PkgNames : Info[n].Source = "AUR"}

Bases == {Info[n].AURBase : n \in AURPkgs}

\* Every archive a base's package list names: a split package lists them all.
PkgDests(base) == {ArchiveOf[n] : n \in {m \in AURPkgs : Info[m].AURBase = base}}

AllArchives == {ArchiveOf[n] : n \in AURPkgs}

\* parser.RebuildModeNo (--norebuild) and parser.RebuildModeYes (--rebuild).
RebuildModes == {"RebuildModeNo", "RebuildModeYes"}

\* cmdArgs.Targets of the runs: the explicit package is the target, the
\* others are pulled in as its dependencies.
TargetChoices == {{"yippee"}}

\* The archives present before Install: none, or those of every base.
DiskChoices == {{}, AllArchives}

\* What the runs are configured with.  The installed version is only read
\* under --needed, and with downloadOnly neither it nor the rebuild mode is:
\* the combinations that differ in an unread setting are left out, but for
\* the state a successful run leaves behind (everything installed and built).
\* Under --needed the rebuild mode and the archives are varied together.
Configs ==
  {c \in [needed : BOOLEAN, installed : {{}, AURPkgs}, rebuildMode : RebuildModes,
          origTargets : TargetChoices, downloadOnly : BOOLEAN, disk : DiskChoices,
          keepSrc : BOOLEAN] :
     /\ ~c.needed => \/ c.installed = {}
                     \/ /\ c.rebuildMode = "RebuildModeNo"
                        /\ c.disk = AllArchives
                        /\ ~c.downloadOnly
     /\ c.needed => (c.rebuildMode = "RebuildModeNo" <=> c.disk = AllArchives)
     /\ c.downloadOnly => ~c.needed /\ c.rebuildMode = "RebuildModeNo"}

\* How the command runner of a run answers, as ShowFn / CaptureFn of the
\* tests' MockRunner do: every invocation succeeds but the ones of one kind
\* (for makepkg: in the build directory of one base), which fail every time
\* (sticky) or the first time only.  "noarchive" is a build that exits 0 and
\* leaves no archive, "empty" a package list without a line.
FaultChoices ==
  {[op |-> "none", base |-> "", sticky |-> TRUE]}
  \cup [op : {"build"}, base : Bases, sticky : {TRUE}]
  \cup [op : {"build"}, base : {"yippee"}, sticky : {FALSE}]
  \cup [op : {"refresh", "empty"}, base : {"yippee"}, sticky : {TRUE}]
  \cup [op : {"noarchive"}, base : {"yippee"}, sticky : BOOLEAN]
  \cup [op : {"S"}, base : {""}, sticky : {TRUE}]
  \cup [op : {"D"}, base : {""}, sticky : BOOLEAN]
  \cup [op : {"U"}, base : {""}, sticky : BOOLEAN]

\* ---------------------------------------------------------------- layers

RECURSIVE UnionOf(_)
UnionOf(s) == IF s = <<>> THEN {} ELSE Head(s) \cup UnionOf(Tail(s))

RECURSIVE Disjoint(_)
Disjoint(s) ==
  IF s = <<>> THEN TRUE
  ELSE Head(s) \cap UnionOf(Tail(s)) = {} /\ Disjoint(Tail(s))

\* []map[string]*dep.InstallInfo: a layer is the set of its keys; a package
\* is in one layer only, and the target of the command line is in one.
LayerSeqs ==
  {s \in UNION {[1..k -> (SUBSET PkgNames) \ {{}}] : k \in 1..MaxLayers} :
     Disjoint(s) /\ \A t \in UNION TargetChoices : t \in UnionOf(s)}

\* ------------------------------------------------------------------ state

VARIABLES
  targets,           \* the layers; a rollup rewrites targets[i-1]
  origTargets,       \* installer.origTargets, from cmdArgs.Targets
  needed,            \* cmdArgs.ExistsArg("needed")
  installed,         \* the packages IsCorrectVersionInstalled answers true for
  fault,             \* the invocations the command runner fails
  fired,             \* whether the fault has hit an invocation
  fault2,            \* a pacman operation that fails as well ("none": no other)
  rebuildMode,       \* installer.rebuildMode
  downloadOnly,      \* installer.downloadOnly
  keepSrc,           \* CmdBuilder.KeepSrc (--keepsrc)
  targetMode,        \* installer.targetMode
  sysupgrade,        \* cmdArgs holds the arguments u and upgrades
  i,                 \* the loop index of Install (1 is the last layer handled)
  pc,                \* where Install stands
  todo,              \* AUR packages of the layer not yet handed to buildPkg
  cur,               \* the package buildPkg is working on
  pkgArchives,       \* archives collected for the layer's pacman -U
  deps,              \* packages to mark --asdeps after the layer's pacman -U
  exps,              \* packages to mark --asexplicit after the layer's pacman -U
  reasonQ,           \* pending pacman -D invocations
  layerErr,          \* the error handleLayer returns ("none": nil)
  failedAndIgnored,  \* installer.failedAndIgnored (its keys)
  errMulti,          \* the errors Install collected
  result,            \* what Install returned ("running" until it returns)
  disk,              \* the package archives that exist in the build directories
  calls,             \* every invocation issued so far, in order
  cleanFuncs,        \* the clean-up functions the preparer hands out (non-nil)
  hookFails,         \* the clean-up functions that return an error
  postInstallHooks,  \* the installer's registered hooks
  hooksRun,          \* the hooks called so far, in order
  hookErrs,          \* the errors RunPostInstallHooks collected
  multiErr,          \* multiErr of OperationService.Run
  vcsUpdates,        \* the failed lists UpdateVCSStore was called with
  runPc,             \* where OperationService.Run stands
  runResult,         \* the errors in what Run returned (<<>>: nil)
  prep,              \* how the preparation phases of Run answer
  phases,            \* the preparation phases Run has called, in order
  hangIn,            \* the local database and removeOptional of hangingPackages
  safePackages,      \* hangingPackages: the state (0, 1, 2) of every package
  iterateAgain,      \* hangingPackages: whether another pass is due
  hangPc,            \* where hangingPackages stands
  hanging,           \* what hangingPackages returns
  getOut,            \* what getPkgbuilds / printPkgbuilds warns of and returns
  pkgBuildDirs,      \* the bases whose sources the downloader is to fetch
  maxConcurrentDownloads,  \* the concurrency limit handed to the downloader
  dirFails,          \* the bases whose makepkg --verifysource fails
  invoked,           \* per base, the makepkg invocations made for it
  inFlight,          \* the bases whose invocation has started and not returned
  finished,          \* the bases whose invocation has returned
  fanErrs,           \* the errors the downloader collected
  fanPc,             \* "running" until the downloader returns
  fanResult,         \* the errors in what the downloader returned (<<>>: nil)
  dlEnv,             \* what a PKGBUILD download is called with and answered
  dlTargets,         \* targets of PKGBUILDRepos / PKGBUILDs
  gitDirs,           \* the package directories under dest that hold a .git
  dlIdx,             \* the target the loop of the download stands at
  routines,          \* the download goroutines that have not ended
  cloned,            \* the result map (cloned / pkgbuilds), as its entries
  dlErrs,            \* errs of the download
  resolved,          \* what getPackageUsableName answered, per target
  fetches,           \* the downloads made, with their outcome
  dlPc,              \* "loop", "wait" (wg.Wait) or "returned"
  dlResult,          \* what the download returned
  gitIn,             \* the arguments and surroundings of a downloadGitRepo call
  gitOut,            \* what that call did and returned
  cancelled,         \* whether the context of the source downloader is cancelled
  signalled,         \* the invocations of the downloader told to terminate
  sem,               \* how many values the channel sem holds
  mux                \* the goroutine that holds mux (0: unlocked)

vars == <<targets, origTargets, needed, installed, fault, fired, fault2, rebuildMode,
          downloadOnly, keepSrc, targetMode, sysupgrade, i, pc, todo, cur, pkgArchives, deps, exps, reasonQ,
          layerErr, failedAndIgnored, errMulti, result, disk, calls,
          cleanFuncs, hookFails, postInstallHooks, hooksRun, hookErrs, multiErr,
          vcsUpdates, runPc, runResult, pkgBuildDirs, maxConcurrentDownloads,
          dirFails, invoked, inFlight, finished, fanErrs, fanPc, fanResult,
          dlEnv, dlTargets, gitDirs, dlIdx, routines, cloned, dlErrs, resolved,
          fetches, dlPc, dlResult, gitIn, gitOut, sem, mux, cancelled, signalled,
          prep, phases, hangIn, safePackages, iterateAgain, hangPc, hanging,
          getOut>>

\* The state of a hangingPackages call.
hangVars == <<hangIn, safePackages, iterateAgain, hangPc, hanging>>

\* The state of the queries, which neither the installer nor a download
\* touches.
queryVars == <<hangVars, getOut>>

cfgVars == <<origTargets, needed, rebuildMode, downloadOnly, keepSrc, targetMode, sysupgrade,
             fault, fault2>>

\* The state of OperationService.Run around Install.
runVars == <<cleanFuncs, hookFails, postInstallHooks, hooksRun, hookErrs, multiErr,
             vcsUpdates, runPc, runResult, prep, phases>>

\* The state of the fan-out source downloader.
fanVars == <<pkgBuildDirs, maxConcurrentDownloads, dirFails, invoked, inFlight,
             finished, fanErrs, fanPc, fanResult, cancelled, signalled>>

\* The state of a PKGBUILD download and of a downloadGitRepo call.
dlVars == <<dlEnv, dlTargets, gitDirs, dlIdx, routines, cloned, dlErrs, resolved,
            fetches, dlPc, dlResult, gitIn, gitOut, sem, mux>>

\* One recorded invocation.  kind: "refresh" (makepkg --nobuild -f -C),
\* "list" (makepkg --packagelist), "build" (makepkg -f -c --noconfirm
\* --noextract --noprepare --holdver), "skip" (makepkg -c --nobuild
\* --noextract), "S", "U", "D" (pacman -S, -U, -D).  flag is the clean flag
\* of a makepkg invocation and the reason flag of a pacman -D.
Call(kind, layer, pkg, tgts, flag, ok, built, inst) ==
  [kind |-> kind, layer |-> layer, pkg |-> pkg, targets |-> tgts, flag |-> flag,
   ok |-> ok, built |-> built, installed |-> inst]

\* Clean flags passed whatever --keepsrc says.
CleanFlagAlways(kind, keep) ==
  CASE kind = "refresh"           -> "-C"
    [] kind \in {"build", "skip"} -> "-c"
    [] kind = "list"              -> ""

\* The clean flag of a makepkg invocation: -C on the refresh and -c on the
\* build or skip command, none on the package list, and none at all with
\* --keepsrc.
CleanFlag(kind, keep) ==
  CASE kind = "refresh"           -> IF keep THEN "" ELSE "-C"
    [] kind \in {"build", "skip"} -> IF keep THEN "" ELSE "-c"
    [] kind = "list"              -> ""

MakepkgCall(kind, layer, pkg, ok) ==
  Call(kind, layer, pkg, {}, CleanFlag(kind, keepSrc), ok, FALSE, FALSE)

PacmanCall(kind, layer, tgts, flag, ok) == Call(kind, layer, "", tgts, flag, ok, FALSE, FALSE)

\* --------------------------------------------------------------- helpers

\* A rollup that drops the failed layer.
mergeLayersDropped(layer1, layer2) == layer1

mergeLayers(layer1, layer2) == layer1 \cup layer2

AURNames(layer) == {n \in layer : Info[n].Source = "AUR"}

SyncNames(layer) == {n \in layer : Info[n].Source = "Sync"}

\* Only plain dependencies taken for dependencies.
IsDepReasonPlain(n) == Info[n].Reason = "Dep"

IsDepReason(n) == Info[n].Reason \in {"Dep", "MakeDep", "CheckDep"}

\* The pacman -D invocations for a set of packages: dependencies first.
ReasonQueue(names) ==
  LET d == {n \in names : IsDepReason(n)}
      e == {n \in names : Info[n].Reason = "Explicit"}
  IN  (IF d = {} THEN <<>> ELSE <<[flag |-> "asdeps", names |-> d]>>)
      \o (IF e = {} THEN <<>> ELSE <<[flag |-> "asexplicit", names |-> e]>>)

\* Archives never found.
pkgsAreBuiltNever(pkgdests, d) == FALSE

pkgsAreBuilt(pkgdests, d) == pkgdests \subseteq d

\* Archives never reused.
skipAlreadyBuiltPkgNever(mode, isTarget, pkgdests, d) == FALSE

\* A rebuild mode that does not tell targets from dependencies.
skipAlreadyBuiltPkgAnyPkg(mode, isTarget, pkgdests, d) ==
  mode = "RebuildModeNo" /\ pkgdests \subseteq d

skipAlreadyBuiltPkg(mode, isTarget, pkgdests, d) ==
  CASE mode = "RebuildModeNo"  -> pkgsAreBuilt(pkgdests, d)
    [] mode = "RebuildModeYes" -> ~isTarget /\ pkgsAreBuilt(pkgdests, d)

\* A switch that does not look at --needed.
BuildDecisionIgnoresNeeded(dlOnly, need, isInstalled, mode, isTarget, pkgdests, d) ==
  CASE dlOnly                                              -> "uptodate"
    [] skipAlreadyBuiltPkg(mode, isTarget, pkgdests, d)    -> "made"
    [] OTHER                                               -> "build"

\* A switch that does not look at downloadOnly.
BuildDecisionInstallsAlways(dlOnly, need, isInstalled, mode, isTarget, pkgdests, d) ==
  CASE need /\ isInstalled                                 -> "uptodate"
    [] skipAlreadyBuiltPkg(mode, isTarget, pkgdests, d)    -> "made"
    [] OTHER                                               -> "build"

\* The switch of buildPkg: which makepkg command follows the package list.
BuildDecision(dlOnly, need, isInstalled, mode, isTarget, pkgdests, d) ==
  CASE (need /\ isInstalled) \/ dlOnly                -> "uptodate"
    [] skipAlreadyBuiltPkg(mode, isTarget, pkgdests, d) -> "made"
    [] OTHER                                           -> "build"

\* A loop that handles the first element only.
FirstLayerOnly(t) == 1

\* Install's loop starts at the last element of targets: i := len(targets) - 1.
FirstLayer(t) == Len(t)

\* ----------------------------------------------------------------- Init

\* Every preparation phase of Run succeeds and no package is incompatible.
NoPrepFailure == [fail |-> "none", incompatible |-> FALSE, answer |-> TRUE]

\* parser.ModeAny, parser.ModeRepo, parser.ModeAUR
TargetModes == {"ModeAny", "ModeRepo", "ModeAUR"}

\* An installer for any target mode, called without the arguments u, upgrades.
NoUpgrade == targetMode = "ModeAny" /\ sysupgrade = FALSE

\* build.NewInstaller and the environment of its run: the installer before
\* Install has handled a layer.
NewInstaller(seqs, cfgs, faults, at) ==
  /\ targets \in seqs
  /\ \E c \in cfgs :
       /\ origTargets = c.origTargets
       /\ needed = c.needed
       /\ installed = c.installed
       /\ rebuildMode = c.rebuildMode
       /\ downloadOnly = c.downloadOnly
       /\ keepSrc = c.keepSrc
       /\ disk = c.disk
  /\ fault \in faults
  /\ fired = FALSE
  /\ i = FirstLayer(targets)
  /\ pc = at
  /\ todo = {}
  /\ cur = ""
  /\ pkgArchives = {}
  /\ deps = {}
  /\ exps = {}
  /\ reasonQ = <<>>
  /\ layerErr = "none"
  /\ failedAndIgnored = {}
  /\ errMulti = <<>>
  /\ result = "running"
  /\ calls = <<>>

\* dbExecutor.LocalPackages(), in the order hangingPackages ranges over.
LocalPackages == <<"app", "lib", "tool">>

LocalNames == {LocalPackages[k] : k \in 1..Len(LocalPackages)}

\* getPkgbuilds / printPkgbuilds has not returned.
GetIdle == getOut = [done |-> FALSE, err |-> "nil", warned |-> FALSE, missing |-> <<>>]

\* No hangingPackages call.
HangIdle ==
  /\ hangIn = [explicit |-> {}, depends |-> {}, optdepends |-> {}, provides |-> {},
               removeOptional |-> FALSE]
  /\ safePackages = [p \in LocalNames |-> 0]
  /\ iterateAgain = FALSE
  /\ hangPc = "idle"
  /\ hanging = <<>>

\* The source downloader with nothing to fetch.
FanIdle ==
  /\ pkgBuildDirs = {}
  /\ maxConcurrentDownloads = 0
  /\ dirFails = {}
  /\ invoked = << >>
  /\ inFlight = {}
  /\ finished = {}
  /\ fanErrs = <<>>
  /\ fanPc = "returned"
  /\ fanResult = <<>>
  /\ cancelled = FALSE
  /\ signalled = {}

\* No PKGBUILD download.
DlIdle ==
  /\ dlEnv = [kind |-> "none"]
  /\ dlTargets = <<>>
  /\ gitDirs = {}
  /\ dlIdx = 1
  /\ routines = {}
  /\ cloned = {}
  /\ dlErrs = <<>>
  /\ resolved = <<>>
  /\ fetches = {}
  /\ dlPc = "returned"
  /\ dlResult = [cloned |-> {}, errs |-> <<>>]
  /\ sem = 0
  /\ mux = 0

\* No downloadGitRepo call.
GitIdle ==
  /\ gitIn = [pkgName |-> ""]
  /\ gitOut = [done |-> FALSE]

\* Install called on a new installer with no hook registered.
Init ==
  /\ NewInstaller(LayerSeqs, Configs, FaultChoices, "layer")
  /\ NoUpgrade
  /\ fault2 = "none"
  /\ cleanFuncs = {}
  /\ hookFails = {}
  /\ postInstallHooks = <<>>
  /\ hooksRun = <<>>
  /\ hookErrs = <<>>
  /\ multiErr = <<>>
  /\ vcsUpdates = <<>>
  /\ runPc = "install"
  /\ runResult = <<>>
  /\ prep = NoPrepFailure
  /\ phases = <<>>
  /\ FanIdle
  /\ DlIdle
  /\ GitIdle
  /\ HangIdle
  /\ GetIdle

\* ---------------------------------------------------------------- actions

\* Whether the command runner fails this invocation.
Hits(op, base) ==
  \/ fault.op = op /\ fault.base = base /\ (fault.sticky \/ ~fired)
  \/ fault2 = op /\ base = ""

\* Every layer taken for the last one.
LastLayerAlways(k) == TRUE

\* lastLayer := i == 0 of Install's loop (the model counts from 1).
LastLayer(k) == k = 1

\* The archives of the layer never installed.
AfterPkgNoUpgrade(td, archives) == IF td # {} THEN "aur" ELSE "layerend"

\* Where installAURPackages stands once a package is dealt with: the next
\* package, pacman -U, or (no archive collected) its return.
AfterPkg(td, archives) ==
  IF td # {} THEN "aur" ELSE IF archives = {} THEN "layerend" ELSE "upgrade"

\* Where handleLayer stands once the repository packages are dealt with.
AurEntry(layer) == IF AURNames(layer) = {} THEN "layerend" ELSE "aur"

\* Failed builds kept under the base of the package.
FailedKeyBase(n) == Info[n].AURBase

\* The key under which a failed build is kept in installer.failedAndIgnored.
FailedKey(n) == n

\* handleLayer: split the layer by source and start with the repository side.
HandleLayer ==
  /\ pc = "layer"
  /\ todo' = AURNames(targets[i])
  /\ cur' = ""
  /\ pkgArchives' = {}
  /\ deps' = {}
  /\ exps' = {}
  /\ reasonQ' = <<>>
  /\ layerErr' = "none"
  /\ pc' = IF SyncNames(targets[i]) # {} THEN "sync" ELSE AurEntry(targets[i])
  /\ UNCHANGED <<targets, cfgVars, queryVars, runVars, fanVars, dlVars, installed, fired, i, failedAndIgnored, errMulti,
                 result, disk, calls>>

\* The reason updates that follow a repository transaction.
SyncReasons(ok, names) == IF ok /\ ~downloadOnly THEN ReasonQueue(names) ELSE <<>>

\* The arguments u and upgrades passed on whatever the target mode.
UpgradeFlagAlways(up, mode) == IF up THEN "-u --upgrades" ELSE ""

\* The arguments u and upgrades of cmdArgs on the pacman -S of the installer:
\* passed on, but removed when only AUR packages are to be upgraded.
UpgradeFlag(up, mode) == IF up /\ mode # "ModeAUR" THEN "-u --upgrades" ELSE ""

\* installSyncPackages: one pacman -S for the repository packages of the layer.
SyncInstall ==
  /\ pc = "sync"
  /\ LET names == SyncNames(targets[i])
         ok    == ~Hits("S", "")
         q     == SyncReasons(ok, names)
     IN  /\ calls' = Append(calls, PacmanCall("S", i, {CompositeName[n] : n \in names},
                                              UpgradeFlag(sysupgrade, targetMode), ok))
         /\ fired' = (fired \/ ~ok)
         /\ reasonQ' = q
         /\ layerErr' = IF ok THEN "none" ELSE "error installing repo packages"
         /\ pc' = IF ~ok THEN "layerend"
                  ELSE IF q # <<>> THEN "syncreason" ELSE AurEntry(targets[i])
  /\ UNCHANGED <<targets, cfgVars, queryVars, runVars, fanVars, dlVars, installed, i, todo, cur, pkgArchives, deps, exps,
                 failedAndIgnored, errMulti, result, disk>>

\* asdeps / asexp: one pacman -D; a failure is returned as the error of the
\* layer (SetPkgReasonError), and the updates still pending are not issued.
SetPkgReason ==
  /\ pc \in {"syncreason", "aurreason"}
  /\ reasonQ # <<>>
  /\ LET ok == ~Hits("D", "")
     IN  /\ calls' = Append(calls, PacmanCall("D", i, Head(reasonQ).names, Head(reasonQ).flag, ok))
         /\ fired' = (fired \/ ~ok)
         /\ reasonQ' = IF ok THEN Tail(reasonQ) ELSE <<>>
         /\ layerErr' = IF ok THEN layerErr ELSE "error updating package install reason"
         /\ pc' = IF ~ok THEN "layerend"
                  ELSE IF Tail(reasonQ) # <<>> THEN pc
                  ELSE IF pc = "syncreason" THEN AurEntry(targets[i]) ELSE "layerend"
  /\ UNCHANGED <<targets, cfgVars, queryVars, runVars, fanVars, dlVars, installed, i, todo, cur, pkgArchives, deps, exps,
                 failedAndIgnored, errMulti, result, disk>>

\* The error of a failed build named after the package.
ErrorMakingOfPkg(n) ==
  CASE n = "yippee"          -> "error making: yippee"
    [] n = "bob"             -> "error making: bob"
    [] n = "jellyfin-server" -> "error making: jellyfin-server"

\* gotext.Get("error making: %s", base): the error of a failed build names
\* the base of the package.
ErrorMaking(n) ==
  CASE Info[n].AURBase = "yippee"   -> "error making: yippee"
    [] Info[n].AURBase = "jellyfin" -> "error making: jellyfin"

\* The failed package recorded in place of the earlier ones.
RecordFailedAlone(failed, key) == {key}

\* installer.failedAndIgnored[name] = errMake
RecordFailed(failed, key) == failed \cup {key}

\* installAURPackages on errMake: the error of the layer unless it is the last
\* layer, where the package is kept in failedAndIgnored and the loop goes on.
BuildFailed(n, td) ==
  IF ~LastLayer(i)
  THEN /\ layerErr' = ErrorMaking(n)
       /\ pc' = "layerend"
       /\ UNCHANGED failedAndIgnored
  ELSE /\ failedAndIgnored' = RecordFailed(failedAndIgnored, FailedKey(n))
       /\ pc' = AfterPkg(td, pkgArchives)
       /\ UNCHANGED layerErr

\* The build issued right after the refresh, and the list after it.
BuildStepAfterBuildFirst(kind) ==
  CASE kind = "refresh" -> "make"
    [] kind = "list"    -> "make"

\* buildPkg's order: the package list follows the refresh, and the build or
\* skip command, chosen by what the list names, follows the list.
BuildStepAfter(kind) ==
  CASE kind = "refresh" -> "list"
    [] kind = "list"    -> "make"

\* buildPkg, first invocation: makepkg --nobuild -f -C for the next package
\* of the layer (the packages of a layer are ranged over in no fixed order).
BuildRefresh ==
  /\ pc = "aur"
  /\ todo # {}
  /\ \E n \in todo :
       LET ok == ~Hits("refresh", Info[n].AURBase)
       IN  /\ cur' = n
           /\ todo' = todo \ {n}
           /\ calls' = Append(calls, MakepkgCall("refresh", i, n, ok))
           /\ fired' = (fired \/ ~ok)
           /\ IF ok
              THEN pc' = BuildStepAfter("refresh") /\ UNCHANGED <<layerErr, failedAndIgnored>>
              ELSE BuildFailed(n, todo \ {n})
  /\ UNCHANGED <<targets, cfgVars, queryVars, runVars, fanVars, dlVars, installed, i, pkgArchives, deps, exps, reasonQ,
                 errMulti, result, disk>>

\* parsePackageList: makepkg --packagelist; a list without an archive fails
\* the build of the package.
BuildList ==
  /\ pc = "list"
  /\ LET empty == Hits("empty", Info[cur].AURBase)
     IN  /\ calls' = Append(calls, MakepkgCall("list", i, cur, ~empty))
         /\ fired' = (fired \/ empty)
         /\ IF ~empty
            THEN pc' = BuildStepAfter("list") /\ UNCHANGED <<layerErr, failedAndIgnored>>
            ELSE BuildFailed(cur, todo)
  /\ UNCHANGED <<targets, cfgVars, queryVars, runVars, fanVars, dlVars, installed, i, todo, cur, pkgArchives, deps, exps,
                 reasonQ, errMulti, result, disk>>

\* pkgsAreAlreadyInstalled: every package of the list is at its version.
pkgsAreAlreadyInstalled(base, inst) == {m \in AURPkgs : Info[m].AURBase = base} \subseteq inst

\* How the second makepkg invocation of buildPkg ends.
MakeOutcome(kind, base) ==
  IF kind = "build" /\ Hits("build", base) THEN "fail"
  ELSE IF kind = "build" /\ Hits("noarchive", base) THEN "noarchive"
  ELSE "ok"

\* Every archive of the package's base taken for the package's own.
NewTargetsOfBase(n) == PkgDests(Info[n].AURBase)

\* FindPkgDestError: the error of getNewTargets, with the package and the
\* archive that does not exist.
FindPkgDestError ==
  [n \in AURPkgs |->
     CASE n = "yippee" ->
            "the PKGDEST for yippee is listed by makepkg but does not exist: /testdir/yippee-91.0.0-1-x86_64.pkg.tar.zst"
       [] n = "bob" ->
            "the PKGDEST for bob is listed by makepkg but does not exist: /testdir/bob-91.0.0-1-x86_64.pkg.tar.zst"
       [] n = "jellyfin-server" ->
            "the PKGDEST for jellyfin-server is listed by makepkg but does not exist: /testdir/jellyfin-server-10.8.8-1-x86_64.pkg.tar.zst"]

\* getNewTargets: the archive of the package, which must exist.
NewTargets(n) == {ArchiveOf[n]}

\* buildPkg, last invocation, and what installAURPackages does with its result.
BuildMake ==
  /\ pc = "make"
  /\ LET base        == Info[cur].AURBase
         pkgdests    == PkgDests(base)
         isBuilt     == pkgsAreBuilt(pkgdests, disk)
         isInstalled == pkgsAreAlreadyInstalled(base, installed)
         decision    == BuildDecision(downloadOnly, needed, isInstalled, rebuildMode,
                                      cur \in origTargets, pkgdests, disk)
         kind        == IF decision = "build" THEN "build" ELSE "skip"
         out         == MakeOutcome(kind, base)
         disk2       == IF kind = "build" /\ out = "ok" THEN disk \cup pkgdests ELSE disk
     IN  /\ calls' = Append(calls, Call(kind, i, cur, {}, CleanFlag(kind, keepSrc), out # "fail",
                                        isBuilt, isInstalled))
         /\ fired' = (fired \/ out # "ok")
         /\ disk' = disk2
         /\ IF out = "fail"
            THEN /\ BuildFailed(cur, todo)
                 /\ UNCHANGED <<pkgArchives, deps, exps>>
            ELSE IF decision = "uptodate"
            THEN \* nothing to install for the package
                 /\ pc' = AfterPkg(todo, pkgArchives)
                 /\ UNCHANGED <<pkgArchives, deps, exps, layerErr, failedAndIgnored>>
            ELSE IF ~(NewTargets(cur) \subseteq disk2)
            THEN \* the PKGDEST is listed by makepkg but does not exist
                 /\ layerErr' = FindPkgDestError[cur]
                 /\ pc' = "layerend"
                 /\ UNCHANGED <<pkgArchives, deps, exps, failedAndIgnored>>
            ELSE /\ pkgArchives' = pkgArchives \cup NewTargets(cur)
                 /\ deps' = IF IsDepReason(cur) THEN deps \cup {cur} ELSE deps
                 /\ exps' = IF IsDepReason(cur) THEN exps ELSE exps \cup {cur}
                 /\ pc' = AfterPkg(todo, pkgArchives \cup NewTargets(cur))
                 /\ UNCHANGED <<layerErr, failedAndIgnored>>
  /\ UNCHANGED <<targets, cfgVars, queryVars, runVars, fanVars, dlVars, installed, i, todo, cur, reasonQ, errMulti, result>>

\* installPkgArchive and setInstallReason: one pacman -U for the archives of
\* the layer, then the reason updates of the packages it installed.
InstallPkgArchive ==
  /\ pc = "upgrade"
  /\ LET ok == ~Hits("U", "")
         q  == IF ok THEN ReasonQueue(deps \cup exps) ELSE <<>>
     IN  /\ calls' = Append(calls, PacmanCall("U", i, pkgArchives, "", ok))
         /\ fired' = (fired \/ ~ok)
         /\ installed' = IF ok THEN installed \cup deps \cup exps ELSE installed
         /\ reasonQ' = q
         /\ layerErr' = IF ok THEN "none" ELSE "error installing"
         /\ pc' = IF ok /\ q # <<>> THEN "aurreason" ELSE "layerend"
  /\ UNCHANGED <<targets, cfgVars, queryVars, runVars, fanVars, dlVars, i, todo, cur, pkgArchives, deps, exps,
                 failedAndIgnored, errMulti, result, disk>>

\* The body of Install's loop after handleLayer returned: return nil after
\* the last layer, give up on an error of the last layer, and otherwise roll
\* a failed layer up into the next one.
FinishLayer ==
  /\ pc = "layerend"
  /\ errMulti' = IF layerErr = "none" THEN errMulti
                 ELSE Append(errMulti, [layer |-> i, err |-> layerErr])
  /\ IF LastLayer(i)
     THEN /\ result' = IF layerErr = "none" THEN "nil" ELSE "error"
          /\ pc' = "done"
          /\ UNCHANGED <<targets, i>>
     ELSE /\ targets' = IF layerErr = "none" THEN targets
                        ELSE [targets EXCEPT ![i - 1] = mergeLayers(@, targets[i])]
          /\ i' = i - 1
          /\ pc' = "layer"
          /\ UNCHANGED result
  /\ UNCHANGED <<cfgVars, queryVars, runVars, fanVars, dlVars, installed, fired, todo, cur, pkgArchives, deps, exps, reasonQ,
                 layerErr, failedAndIgnored, disk, calls>>

Next ==
  \/ HandleLayer
  \/ SyncInstall
  \/ SetPkgReason
  \/ BuildRefresh
  \/ BuildList
  \/ BuildMake
  \/ InstallPkgArchive
  \/ FinishLayer

Spec == Init /\ [][Next]_vars

\* Install called with or without the arguments u and upgrades, by an
\* installer of each target mode.
UpgradeInit ==
  /\ NewInstaller(LayerSeqs, {c \in Configs : ~c.needed /\ c.installed = {} /\ c.disk = {}
                                              /\ c.rebuildMode = "RebuildModeNo" /\ ~c.keepSrc},
                  {f \in FaultChoices : f.op \in {"none", "S"}}, "layer")
  /\ targetMode \in TargetModes
  /\ sysupgrade \in BOOLEAN
  /\ fault2 = "none"
  /\ cleanFuncs = {}
  /\ hookFails = {}
  /\ postInstallHooks = <<>>
  /\ hooksRun = <<>>
  /\ hookErrs = <<>>
  /\ multiErr = <<>>
  /\ vcsUpdates = <<>>
  /\ runPc = "install"
  /\ runResult = <<>>
  /\ prep = NoPrepFailure
  /\ phases = <<>>
  /\ FanIdle
  /\ DlIdle
  /\ GitIdle
  /\ HangIdle
  /\ GetIdle

UpgradeSpec == UpgradeInit /\ [][Next]_vars

\* CompileFailedAndIgnored: the failed packages, and an error naming them
\* unless there is none.
CompileFailedAndIgnored ==
  [failed |-> failedAndIgnored,
   err    |-> IF failedAndIgnored = {} THEN "nil" ELSE "FailedIgnoredPkgError",
   names  |-> failedAndIgnored]

\* ------------------------------------------------- OperationService.Run

\* The clean-up functions Run asks the preparer for, in the order it asks:
\* ShouldCleanMakeDeps, then ShouldCleanAURDirs.
HookFuncs == <<"cleanFunc", "cleanAURDirsFunc">>

\* The runs of OperationService.Run: the target alone, with a repository
\* package, or with a package of another or of its own base in its layer; nothing
\* installed or built before.  The runner fails as FaultChoices say, and
\* with a failing build it may fail pacman -U as well.
RunLayerSeqs ==
  {s \in LayerSeqs : UnionOf(s) \subseteq {"yippee", "linux"}}
  \cup {<<{"yippee", "jellyfin-server"}>>, <<{"yippee", "bob"}>>}
  \cup {<<>>}

\* The preparation phases of Run, in the order of its statements:
\* preparer.Run, srcinfo.NewService, srcInfo.IncompatiblePkgs,
\* confirmIncompatible, srcInfo.CheckPGPKeys.
PrepPhases == <<"prepare", "srcinfo", "incompatible", "confirm", "pgp">>

\* How the phases answer: one of those that can return an error does, or
\* none; some package is incompatible or none is; and what the user answers
\* when asked whether to build them anyway.  The answers Run never gets to
\* read are left out: the incompatible packages when an earlier phase fails,
\* the PGP keys when the user declines.
PrepChoices ==
  {c \in [fail : {"none", "prepare", "srcinfo", "incompatible", "pgp"},
          incompatible : BOOLEAN, answer : BOOLEAN] :
     /\ ~c.incompatible => c.answer
     /\ c.fail \in {"prepare", "srcinfo", "incompatible"} => ~c.incompatible
     /\ c.fail = "pgp" => c.answer}

RunConfigs ==
  {c \in Configs : ~c.needed /\ c.installed = {} /\ c.disk = {}
                    /\ c.rebuildMode = "RebuildModeNo"}

RunFaults == {f \in FaultChoices : f.base \in {"", "yippee"}}

\* Run is called.
RunInit ==
  /\ NewInstaller(RunLayerSeqs, RunConfigs, RunFaults, "new")
  /\ NoUpgrade
  /\ fault2 \in {"none", "U"}
  /\ fault2 = "U" => fault.op = "build" /\ fault.sticky
  /\ cleanFuncs \in SUBSET {HookFuncs[k] : k \in DOMAIN HookFuncs}
  /\ hookFails \in SUBSET cleanFuncs
  /\ postInstallHooks = <<>>
  /\ hooksRun = <<>>
  /\ hookErrs = <<>>
  /\ multiErr = <<>>
  /\ vcsUpdates = <<>>
  /\ runPc = "start"
  /\ runResult = <<>>
  /\ prep \in PrepChoices
  /\ phases = <<>>
  /\ FanIdle
  /\ DlIdle
  /\ GitIdle
  /\ HangIdle
  /\ GetIdle

installVars == <<targets, installed, fired, i, todo, cur, pkgArchives, deps, exps, reasonQ,
                 layerErr, failedAndIgnored, errMulti, result, disk, calls>>

\* One error of those Run returns.
RunErr(kind, names, hooks) == [kind |-> kind, names |-> names, hooks |-> hooks]

\* A hook registered in front of the earlier ones.
AddPostInstallHookFront(hs, fn) == <<fn>> \o hs

\* installer.AddPostInstallHook: the hook joins the end of the list.
AddPostInstallHook(hs, fn) == Append(hs, fn)

\* Targets never taken for none.
NothingToDoNever(t) == FALSE

\* len(targets) == 0
NothingToDo(t) == Len(t) = 0

\* The first statement of Run: without a layer there is nothing to do and
\* Run returns nil.
RunStart ==
  /\ runPc = "start"
  /\ runPc' = IF NothingToDo(targets) THEN "returned" ELSE "prepare"
  /\ UNCHANGED <<installVars, cfgVars, queryVars, fanVars, dlVars, pc, cleanFuncs, hookFails, postInstallHooks,
                 hooksRun, hookErrs, multiErr, vcsUpdates, runResult, prep, phases>>

\* The error of the PGP key check dropped.
PhaseErrButPGP(phase, p) ==
  CASE phase = "confirm" -> IF p.incompatible /\ ~p.answer THEN "ErrUserAbort" ELSE "nil"
    [] phase = "pgp"     -> "nil"
    [] OTHER             -> IF p.fail = phase THEN phase ELSE "nil"

\* What a phase returns: its error if it is the one that fails; for
\* confirmIncompatible ErrUserAbort if packages are incompatible and the
\* user declines to build them anyway.
PhaseErr(phase, p) ==
  CASE phase = "confirm" -> IF p.incompatible /\ ~p.answer THEN "ErrUserAbort" ELSE "nil"
    [] OTHER             -> IF p.fail = phase THEN phase ELSE "nil"

\* One phase of Run: it is called, and Run returns its error if it has one.
PrepPhase(phase, next) ==
  /\ runPc = phase
  /\ phases' = Append(phases, phase)
  /\ IF PhaseErr(phase, prep) # "nil"
     THEN /\ runResult' = <<RunErr(PhaseErr(phase, prep), {}, <<>>)>>
          /\ runPc' = "returned"
     ELSE /\ runPc' = next
          /\ UNCHANGED runResult
  /\ UNCHANGED <<installVars, cfgVars, queryVars, fanVars, dlVars, cleanFuncs, hookFails, postInstallHooks,
                 hooksRun, hookErrs, multiErr, vcsUpdates, prep>>

\* pkgBuildDirs, errInstall := preparer.Run(ctx, run, targets)
PreparerRun == PrepPhase("prepare", "register") /\ UNCHANGED pc

\* srcinfo.NewService parses the .SRCINFO files.
NewService == PrepPhase("srcinfo", "incompatible") /\ UNCHANGED pc

\* srcInfo.IncompatiblePkgs
IncompatiblePkgs == PrepPhase("incompatible", "confirm") /\ UNCHANGED pc

\* confirmIncompatible
ConfirmIncompatible == PrepPhase("confirm", "pgp") /\ UNCHANGED pc

\* srcInfo.CheckPGPKeys; when it returns nil Install is called.
CheckPGPKeys ==
  /\ PrepPhase("pgp", "install")
  /\ pc' = IF PhaseErr("pgp", prep) = "nil" THEN "layer" ELSE pc

\* Run registers the clean-up functions that are not nil.
AddHooks ==
  /\ runPc = "register"
  /\ LET h1 == IF HookFuncs[1] \in cleanFuncs
               THEN AddPostInstallHook(<<>>, HookFuncs[1]) ELSE <<>>
         h2 == IF HookFuncs[2] \in cleanFuncs
               THEN AddPostInstallHook(h1, HookFuncs[2]) ELSE h1
     IN  postInstallHooks' = h2
  /\ runPc' = "srcinfo"
  /\ UNCHANGED <<installVars, cfgVars, queryVars, fanVars, dlVars, pc, cleanFuncs, hookFails, hooksRun, hookErrs,
                 multiErr, vcsUpdates, runResult, prep, phases>>

\* Install has returned: its error is returned at once, and nothing of what
\* follows in Run is reached.
InstallReturns ==
  /\ runPc = "install"
  /\ pc = "done"
  /\ IF result = "error"
     THEN /\ runResult' = <<RunErr("errInstall", {}, <<>>)>>
          /\ runPc' = "returned"
     ELSE /\ runPc' = "compile"
          /\ UNCHANGED runResult
  /\ UNCHANGED <<installVars, cfgVars, queryVars, fanVars, dlVars, pc, cleanFuncs, hookFails, postInstallHooks,
                 hooksRun, hookErrs, multiErr, vcsUpdates,
                 prep, phases>>

\* The error of CompileFailedAndIgnored joins multiErr.
CompileFailed ==
  /\ runPc = "compile"
  /\ multiErr' = IF CompileFailedAndIgnored.err = "nil" THEN multiErr
                 ELSE Append(multiErr, RunErr(CompileFailedAndIgnored.err,
                                              CompileFailedAndIgnored.names, <<>>))
  /\ runPc' = "vcs"
  /\ UNCHANGED <<installVars, cfgVars, queryVars, fanVars, dlVars, pc, cleanFuncs, hookFails, postInstallHooks,
                 hooksRun, hookErrs, vcsUpdates, runResult,
                 prep, phases>>

\* The store notified in download-only runs too.
ShouldUpdateVCSAlways(dlOnly) == TRUE

\* !cmdArgs.ExistsArg("w", "downloadonly")
ShouldUpdateVCS(dlOnly) == ~dlOnly

\* srcInfo.UpdateVCSStore with the failed list of CompileFailedAndIgnored,
\* unless --downloadonly; it may fail, and its error is only logged.
UpdateVCSStore ==
  /\ runPc = "vcs"
  /\ IF ShouldUpdateVCS(downloadOnly)
     THEN \E ok \in BOOLEAN :
            vcsUpdates' = Append(vcsUpdates, [failed |-> CompileFailedAndIgnored.failed,
                                              ok |-> ok, hooksRun |-> hooksRun])
     ELSE UNCHANGED vcsUpdates
  /\ runPc' = "hooks"
  /\ UNCHANGED <<installVars, cfgVars, queryVars, fanVars, dlVars, pc, cleanFuncs, hookFails, postInstallHooks,
                 hooksRun, hookErrs, multiErr, runResult,
                 prep, phases>>

\* RunPostInstallHooks calls the next hook of the list and keeps its error.
RunPostInstallHook ==
  /\ runPc = "hooks"
  /\ Len(hooksRun) < Len(postInstallHooks)
  /\ LET hook == postInstallHooks[Len(hooksRun) + 1]
     IN  /\ hooksRun' = Append(hooksRun, hook)
         /\ hookErrs' = IF hook \in hookFails THEN Append(hookErrs, hook) ELSE hookErrs
  /\ UNCHANGED <<installVars, cfgVars, queryVars, fanVars, dlVars, pc, cleanFuncs, hookFails, postInstallHooks,
                 multiErr, vcsUpdates, runPc, runResult,
                 prep, phases>>

\* RunPostInstallHooks returns what it collected (nil if nothing), Run adds
\* it to multiErr and returns multiErr.Return().
RunReturn ==
  /\ runPc = "hooks"
  /\ Len(hooksRun) = Len(postInstallHooks)
  /\ multiErr' = IF hookErrs = <<>> THEN multiErr
                 ELSE Append(multiErr, RunErr("hooks", {}, hookErrs))
  /\ runResult' = multiErr'
  /\ runPc' = "returned"
  /\ UNCHANGED <<installVars, cfgVars, queryVars, fanVars, dlVars, pc, cleanFuncs, hookFails, postInstallHooks,
                 hooksRun, hookErrs, vcsUpdates,
                 prep, phases>>

RunNext ==
  \/ Next
  \/ RunStart
  \/ PreparerRun
  \/ AddHooks
  \/ NewService
  \/ IncompatiblePkgs
  \/ ConfirmIncompatible
  \/ CheckPGPKeys
  \/ InstallReturns
  \/ CompileFailed
  \/ UpdateVCSStore
  \/ RunPostInstallHook
  \/ RunReturn

RunSpec == RunInit /\ [][RunNext]_vars

\* --------------------------------------------- the fan-out downloader

\* The most build directories a call is given.
MaxDirs == 3

\* The bases of the build directories, as in the downloader's tests.
FanBases == <<"yippee", "yippee-bin", "yippee-git", "yippee-v11", "yippee-v12">>

\* pkgBuildDirs of a call: the directories of the first n bases.
DirChoices == {{FanBases[k] : k \in 1..n} : n \in 0..MaxDirs}

\* maxConcurrentDownloads of a call: negative, 0, or a limit up to the
\* number of directories.
Concurrencies == -1..MaxDirs

\* downloadPKGBUILDSourceFanout is called, within preparer.Run, before the
\* installer has done anything.
FanInit ==
  /\ NoUpgrade
  /\ NewInstaller({<<{"yippee"}>>}, {c \in RunConfigs : ~c.downloadOnly /\ ~c.keepSrc},
                  {f \in FaultChoices : f.op = "none"}, "new")
  /\ fault2 = "none"
  /\ cleanFuncs = {}
  /\ hookFails = {}
  /\ postInstallHooks = <<>>
  /\ hooksRun = <<>>
  /\ hookErrs = <<>>
  /\ multiErr = <<>>
  /\ vcsUpdates = <<>>
  /\ runPc = "prepare"
  /\ runResult = <<>>
  /\ prep = NoPrepFailure
  /\ phases = <<>>
  /\ pkgBuildDirs \in DirChoices
  /\ maxConcurrentDownloads \in Concurrencies
  /\ dirFails \in SUBSET pkgBuildDirs
  /\ invoked = [b \in pkgBuildDirs |-> 0]
  /\ inFlight = {}
  /\ finished = {}
  /\ fanErrs = <<>>
  /\ fanPc = "running"
  /\ fanResult = <<>>
  /\ cancelled = FALSE
  /\ signalled = {}
  /\ DlIdle
  /\ GitIdle
  /\ HangIdle
  /\ GetIdle

\* No limit whatever the setting.
SlotFreeAlways(k, n) == TRUE

\* A setting of 0 or less taken for a single worker.
SlotFreeClamped(k, n) == n < (IF k <= 0 THEN 1 ELSE k)

\* Whether one more invocation may start when n are in flight: always with
\* a limit of 0 or less, otherwise while fewer than the limit are.
SlotFree(k, n) == k <= 0 \/ n < k

\* Only the first failure kept.
CollectFirst(errs, base, failed) == IF failed /\ errs = <<>> THEN <<base>> ELSE errs

\* The error of a failed invocation joins those collected.
Collect(errs, base, failed) == IF failed THEN Append(errs, base) ELSE errs

\* A task that starts its invocation whatever the context says.
MayStartAlways(c) == TRUE

\* A task starts its invocation only while the context is not cancelled.
MayStart(c) == ~c

\* The task of one base starts its makepkg --verifysource.
StartInvocation(base) ==
  /\ fanPc = "running"
  /\ MayStart(cancelled)
  /\ base \in pkgBuildDirs \ (inFlight \cup finished)
  /\ SlotFree(maxConcurrentDownloads, Cardinality(inFlight))
  /\ inFlight' = inFlight \cup {base}
  /\ invoked' = [invoked EXCEPT ![base] = @ + 1]
  /\ UNCHANGED <<installVars, cfgVars, queryVars, pc, runVars, dlVars, pkgBuildDirs, maxConcurrentDownloads,
                 dirFails, finished, fanErrs, fanPc, fanResult, cancelled, signalled>>

\* The invocation of one base returns, and its task ends.
FinishInvocation(base) ==
  /\ fanPc = "running"
  /\ base \in inFlight
  /\ inFlight' = inFlight \ {base}
  /\ finished' = finished \cup {base}
  /\ fanErrs' = Collect(fanErrs, base, base \in dirFails \cup signalled)
  /\ UNCHANGED <<installVars, cfgVars, queryVars, pc, runVars, dlVars, pkgBuildDirs, maxConcurrentDownloads,
                 dirFails, invoked, fanPc, fanResult, cancelled, signalled>>

\* Every task has ended: the downloader returns what was collected.
FanReturn ==
  /\ fanPc = "running"
  /\ finished = pkgBuildDirs
  /\ fanResult' = fanErrs
  /\ fanPc' = "returned"
  /\ UNCHANGED <<installVars, cfgVars, queryVars, pc, runVars, dlVars, pkgBuildDirs, maxConcurrentDownloads,
                 dirFails, invoked, inFlight, finished, fanErrs, cancelled, signalled>>

FanNext ==
  \/ \E base \in pkgBuildDirs : StartInvocation(base)
  \/ \E base \in pkgBuildDirs : FinishInvocation(base)
  \/ FanReturn

FanSpec == FanInit /\ [][FanNext]_vars

\* The caller cancels the context: the invocations in flight are told to
\* terminate.
Cancel ==
  /\ fanPc = "running"
  /\ ~cancelled
  /\ cancelled' = TRUE
  /\ signalled' = inFlight
  /\ UNCHANGED <<installVars, cfgVars, queryVars, pc, runVars, dlVars, pkgBuildDirs, maxConcurrentDownloads,
                 dirFails, invoked, inFlight, finished, fanErrs, fanPc, fanResult>>

\* The task of a base that waits when the context is cancelled ends without
\* its invocation.
ShortCircuit(base) ==
  /\ fanPc = "running"
  /\ cancelled
  /\ base \in pkgBuildDirs \ (inFlight \cup finished)
  /\ finished' = finished \cup {base}
  /\ UNCHANGED <<installVars, cfgVars, queryVars, pc, runVars, dlVars, pkgBuildDirs, maxConcurrentDownloads,
                 dirFails, invoked, inFlight, fanErrs, fanPc, fanResult, cancelled, signalled>>

\* The tasks of the downloader: they take their steps whether or not the
\* context is cancelled.
FanTasks ==
  \/ FanNext
  \/ \E base \in pkgBuildDirs : ShortCircuit(base)

CancelNext ==
  \/ FanTasks
  \/ Cancel

\* The downloader under a context that may be cancelled at any time; every
\* invocation terminates and every task is scheduled.
CancelSpec == FanInit /\ [][CancelNext]_vars /\ WF_vars(FanTasks)

\* ------------------------------------------------ the PKGBUILD download

\* The most targets a download is given.
MaxTargets == 3

\* The size of the semaphore of PKGBUILDs and PKGBUILDRepos.
MaxConcurrentFetch == 2

\* The targets of the downloads, in the order of the command line.
DlTargetStrs == <<"core/yippee", "extra/yippee", "yippee", "aur/yippee-bin", "yippee-bin">>

\* text.SplitDBFromName on those targets.
SplitDBFromName ==
  [t \in {DlTargetStrs[k] : k \in DOMAIN DlTargetStrs} |->
     CASE t = "core/yippee"    -> [db |-> "core",  name |-> "yippee"]
       [] t = "extra/yippee"   -> [db |-> "extra", name |-> "yippee"]
       [] t = "yippee"         -> [db |-> "",      name |-> "yippee"]
       [] t = "aur/yippee-bin" -> [db |-> "aur",   name |-> "yippee-bin"]
       [] t = "yippee-bin"     -> [db |-> "",      name |-> "yippee-bin"]]

DlNames == {SplitDBFromName[t].name : t \in DOMAIN SplitDBFromName}

\* The sync databases of the tests' searcher: yippee is in core.
absPackagesDB == [n \in {"yippee"} |-> "core"]

\* dbExecutor.SyncPackage(name) finds a package.
SyncPackage(name) == name \in DOMAIN absPackagesDB

\* A package looked up in every database, whichever was named.
SyncPackageFromDBAnyDB(name, db) == SyncPackage(name)

\* dbExecutor.SyncPackageFromDB(name, db) finds a package.
SyncPackageFromDB(name, db) == SyncPackage(name) /\ absPackagesDB[name] = db

\* mode.AtLeastRepo()
AtLeastRepo(mode) == mode \in {"ModeAny", "ModeRepo"}

\* What getPackageUsableName returns; aurAsked tells whether it queried
\* the AUR.
Usable(dbname, pkgname, isAUR, toSkip, aurAsked) ==
  [dbname |-> dbname, pkgname |-> pkgname, isAUR |-> isAUR, toSkip |-> toSkip,
   aurAsked |-> aurAsked]

\* getPackageUsableName.  aur is what aurClient.Get answers: "all" (a
\* package for every name), "none" or "error".
getPackageUsableName(target, mode, aur) ==
  LET dbName == SplitDBFromName[target].db
      name   == SplitDBFromName[target].name
      inRepo == /\ dbName # "aur"
                /\ AtLeastRepo(mode)
                /\ IF dbName # "" THEN SyncPackageFromDB(name, dbName)
                                  ELSE SyncPackage(name)
  IN  IF inRepo THEN Usable(absPackagesDB[name], name, FALSE, FALSE, FALSE)
      ELSE IF dbName # "aur" /\ AtLeastRepo(mode) /\ dbName # ""
        THEN Usable(dbName, name, TRUE, TRUE, FALSE)
      ELSE IF mode = "ModeRepo" THEN Usable(dbName, name, TRUE, TRUE, FALSE)
      ELSE IF aur = "error" THEN Usable(dbName, name, TRUE, TRUE, TRUE)
      ELSE IF aur = "none" THEN Usable(dbName, name, TRUE, TRUE, TRUE)
      ELSE Usable("aur", name, TRUE, FALSE, TRUE)

\* A clone only where there is no .git, force or not.
NeedsCloneNoForce(stat, force) == stat = "notexist"

\* The first case of the switch of downloadGitRepo: os.Stat of .git says
\* it does not exist, or it succeeds and force is set.
NeedsClone(stat, force) == stat = "notexist" \/ (stat = "ok" /\ force)

\* What downloadGitRepo did and returned: the git commands captured, whether
\* finalDir was removed, newClone and the error ("nil": none).
GitResult(cmds, removed, newClone, err) ==
  [done |-> TRUE, cmds |-> cmds, removed |-> removed, newClone |-> newClone, err |-> err]

\* downloadGitRepo.  stat: what os.Stat of finalDir/.git says ("ok",
\* "notexist", "error"); dirExists: os.Stat of finalDir succeeds; removeOk and
\* gitOk: os.RemoveAll and the git command succeed.
downloadGitRepo(stat, dirExists, force, removeOk, gitOk) ==
  IF NeedsClone(stat, force)
  THEN IF force /\ dirExists /\ ~removeOk
       THEN GitResult(<<>>, FALSE, FALSE, "remove")
       ELSE IF gitOk THEN GitResult(<<"clone">>, force /\ dirExists, TRUE, "nil")
                     ELSE GitResult(<<"clone">>, force /\ dirExists, FALSE, "git")
  ELSE IF stat # "ok" THEN GitResult(<<>>, FALSE, FALSE, "stat")
  ELSE IF gitOk THEN GitResult(<<"pull">>, FALSE, FALSE, "nil")
                ELSE GitResult(<<"pull">>, FALSE, FALSE, "git")

\* The installer and Run at rest, for the commands that only download.
InstallerIdle ==
  /\ NoUpgrade
  /\ NewInstaller({<<{"yippee"}>>}, {c \in RunConfigs : ~c.downloadOnly /\ ~c.keepSrc},
                  {f \in FaultChoices : f.op = "none"}, "new")
  /\ fault2 = "none"
  /\ cleanFuncs = {}
  /\ hookFails = {}
  /\ postInstallHooks = <<>>
  /\ hooksRun = <<>>
  /\ hookErrs = <<>>
  /\ multiErr = <<>>
  /\ vcsUpdates = <<>>
  /\ runPc = "idle"
  /\ runResult = <<>>
  /\ prep = NoPrepFailure
  /\ phases = <<>>
  /\ FanIdle

\* The subsequences of a sequence.
RECURSIVE SubSeqs(_)
SubSeqs(q) ==
  IF q = <<>> THEN {<<>>}
  ELSE LET rest == SubSeqs(Tail(q))
       IN  rest \cup {<<Head(q)>> \o r : r \in rest}

\* What a download is called with and answered: PKGBUILDRepos or PKGBUILDs,
\* the mode, what the AUR answers, force, and the packages whose download
\* fails.
DlEnvs ==
  [kind : {"PKGBUILDRepos", "PKGBUILDs"}, mode : TargetModes, aur : {"all", "none", "error"},
   force : BOOLEAN, fails : {{}, {"yippee"}, DlNames}]

\* PKGBUILDRepos or PKGBUILDs is called.
DlInit ==
  /\ InstallerIdle
  /\ HangIdle
  /\ GetIdle
  /\ dlEnv \in {e \in DlEnvs : e.kind = "PKGBUILDs" => ~e.force}
  /\ dlTargets \in {q \in SubSeqs(DlTargetStrs) : Len(q) <= MaxTargets}
  /\ gitDirs \in {{}, {"yippee"}}
  /\ dlEnv.kind = "PKGBUILDs" => gitDirs = {}
  /\ dlIdx = 1
  /\ routines = {}
  /\ cloned = {}
  /\ dlErrs = <<>>
  /\ resolved = <<>>
  /\ fetches = {}
  /\ dlPc = "loop"
  /\ dlResult = [cloned |-> {}, errs |-> <<>>]
  /\ sem = 0
  /\ mux = 0
  /\ gitIn = [pkgName |-> ""]
  /\ gitOut = [done |-> FALSE]

dlOthers == <<installVars, cfgVars, queryVars, pc, runVars, fanVars>>

\* The entry kept under the package name instead of the target.
StoreResultByName(m, target, pkgName, val) ==
  {e \in m : e.target # pkgName} \cup {[target |-> pkgName, val |-> val]}

\* cloned[target] = newClone / pkgbuilds[target] = pkgbuild
StoreResult(m, target, pkgName, val) ==
  {e \in m : e.target # target} \cup {[target |-> target, val |-> val]}

\* A channel that always takes one more value.
SemHasRoomAlways(n) == TRUE

\* sem <- 1 goes through while the channel holds fewer values than its
\* capacity MaxConcurrentFetch.
SemHasRoom(n) == n < MaxConcurrentFetch

\* One turn of the loop over the targets: the target is resolved; unless it
\* is to be skipped a slot of the semaphore is taken (which waits while
\* the channel is full), wg.Add(1), and its goroutine is started.
DlSpawn ==
  /\ dlPc = "loop"
  /\ dlIdx <= Len(dlTargets)
  /\ LET target == dlTargets[dlIdx]
         u      == getPackageUsableName(target, dlEnv.mode, dlEnv.aur)
     IN  IF u.toSkip
         THEN /\ resolved' = Append(resolved, [target |-> target, usable |-> u])
              /\ UNCHANGED <<routines, sem>>
         ELSE /\ SemHasRoom(sem)
              /\ sem' = sem + 1
              /\ resolved' = Append(resolved, [target |-> target, usable |-> u])
              /\ routines' = routines \cup
                   {[idx |-> dlIdx, target |-> target, dbName |-> u.dbname,
                     pkgName |-> u.pkgname, aur |-> u.isAUR, at |-> "fetch",
                     ok |-> FALSE, newClone |-> FALSE]}
  /\ dlIdx' = dlIdx + 1
  /\ UNCHANGED <<dlOthers, dlEnv, dlTargets, gitDirs, cloned, dlErrs, fetches, dlPc,
                 dlResult, gitIn, gitOut, mux>>

\* After the last target the loop ends and wg.Wait() begins.
DlLoopEnd ==
  /\ dlPc = "loop"
  /\ dlIdx > Len(dlTargets)
  /\ dlPc' = "wait"
  /\ UNCHANGED <<dlOthers, dlEnv, dlTargets, gitDirs, dlIdx, routines, cloned, dlErrs,
                 resolved, fetches, dlResult, gitIn, gitOut, sem, mux>>

\* What the download of a goroutine gives: for PKGBUILDRepos the answer of
\* downloadGitRepo on the package directory, for PKGBUILDs that of the HTTP
\* request.
Fetched(g) ==
  IF dlEnv.kind = "PKGBUILDRepos"
  THEN downloadGitRepo(IF g.pkgName \in gitDirs THEN "ok" ELSE "notexist",
                       g.pkgName \in gitDirs, dlEnv.force, TRUE,
                       g.pkgName \notin dlEnv.fails)
  ELSE GitResult(<<>>, FALSE, FALSE, IF g.pkgName \in dlEnv.fails THEN "http" ELSE "nil")

\* A goroutine downloads: AURPKGBUILDRepo / ABSPKGBUILDRepo, or AURPKGBUILD /
\* ABSPKGBUILD.  On success it goes for the mutex, on failure for errs.Add.
DlFetch(g) ==
  /\ g \in routines
  /\ g.at = "fetch"
  /\ LET r == Fetched(g)
     IN  /\ routines' = (routines \ {g}) \cup
                        {[g EXCEPT !.at = IF r.err = "nil" THEN "lock" ELSE "adderr",
                                   !.ok = (r.err = "nil"),
                                   !.newClone = r.newClone]}
         /\ gitDirs' = IF r.cmds = <<"clone">> /\ r.err = "nil"
                          THEN gitDirs \cup {g.pkgName}
                        ELSE IF r.removed THEN gitDirs \ {g.pkgName}
                        ELSE gitDirs
         /\ fetches' = fetches \cup
                        {[idx |-> g.idx, target |-> g.target, aur |-> g.aur,
                          ok |-> r.err = "nil", newClone |-> r.newClone]}
  /\ UNCHANGED <<dlOthers, dlEnv, dlTargets, dlIdx, cloned, dlErrs, resolved, dlPc,
                 dlResult, gitIn, gitOut, sem, mux>>

\* A mutex anyone can take.
MuxFreeAlways(m) == TRUE

\* mux.Lock() goes through while no goroutine holds the mutex.
MuxFree(m) == m = 0

\* mux.Lock()
DlLock(g) ==
  /\ g \in routines
  /\ g.at = "lock"
  /\ MuxFree(mux)
  /\ mux' = g.idx
  /\ routines' = (routines \ {g}) \cup {[g EXCEPT !.at = "write"]}
  /\ UNCHANGED <<dlOthers, dlEnv, dlTargets, gitDirs, dlIdx, cloned, dlErrs, resolved,
                 fetches, dlPc, dlResult, gitIn, gitOut, sem>>

\* cloned[target] = newClone, or pkgbuilds[target] = pkgbuild.
DlRecord(g) ==
  /\ g \in routines
  /\ g.at = "write"
  /\ cloned' = StoreResult(cloned, g.target, g.pkgName,
                           IF dlEnv.kind = "PKGBUILDRepos" THEN g.newClone ELSE TRUE)
  /\ routines' = (routines \ {g}) \cup {[g EXCEPT !.at = "unlock"]}
  /\ UNCHANGED <<dlOthers, dlEnv, dlTargets, gitDirs, dlIdx, dlErrs, resolved, fetches,
                 dlPc, dlResult, gitIn, gitOut, sem, mux>>

\* mux.Unlock()
DlUnlock(g) ==
  /\ g \in routines
  /\ g.at = "unlock"
  /\ mux' = 0
  /\ routines' = (routines \ {g}) \cup {[g EXCEPT !.at = "release"]}
  /\ UNCHANGED <<dlOthers, dlEnv, dlTargets, gitDirs, dlIdx, cloned, dlErrs, resolved,
                 fetches, dlPc, dlResult, gitIn, gitOut, sem>>

\* errs.Add(err): the collector takes the error of a failed download.
DlAddErr(g) ==
  /\ g \in routines
  /\ g.at = "adderr"
  /\ dlErrs' = Append(dlErrs, g.target)
  /\ routines' = (routines \ {g}) \cup {[g EXCEPT !.at = "release"]}
  /\ UNCHANGED <<dlOthers, dlEnv, dlTargets, gitDirs, dlIdx, cloned, resolved, fetches,
                 dlPc, dlResult, gitIn, gitOut, sem, mux>>

\* A slot given back after a successful download only.
ReleaseSlotOnSuccess(n, ok) == IF ok THEN n - 1 ELSE n

\* <-sem at the end of the goroutine, whatever the download gave.
ReleaseSlot(n, ok) == n - 1

\* A goroutine gives its slot back: <-sem.
DlRelease(g) ==
  /\ g \in routines
  /\ g.at = "release"
  /\ sem' = ReleaseSlot(sem, g.ok)
  /\ routines' = (routines \ {g}) \cup {[g EXCEPT !.at = "done"]}
  /\ UNCHANGED <<dlOthers, dlEnv, dlTargets, gitDirs, dlIdx, cloned, dlErrs, resolved,
                 fetches, dlPc, dlResult, gitIn, gitOut, mux>>

\* A goroutine ends: wg.Done().
DlDone(g) ==
  /\ g \in routines
  /\ g.at = "done"
  /\ routines' = routines \ {g}
  /\ UNCHANGED <<dlOthers, dlEnv, dlTargets, gitDirs, dlIdx, cloned, dlErrs, resolved,
                 fetches, dlPc, dlResult, gitIn, gitOut, sem, mux>>

\* wg.Wait() is over: the map and errs.Return() are returned.
DlReturn ==
  /\ dlPc = "wait"
  /\ routines = {}
  /\ dlResult' = [cloned |-> cloned, errs |-> dlErrs]
  /\ dlPc' = "returned"
  /\ UNCHANGED <<dlOthers, dlEnv, dlTargets, gitDirs, dlIdx, routines, cloned, dlErrs,
                 resolved, fetches, gitIn, gitOut, sem, mux>>

DlNext ==
  \/ DlSpawn
  \/ DlLoopEnd
  \/ \E g \in routines : DlFetch(g)
  \/ \E g \in routines : DlLock(g)
  \/ \E g \in routines : DlRecord(g)
  \/ \E g \in routines : DlUnlock(g)
  \/ \E g \in routines : DlAddErr(g)
  \/ \E g \in routines : DlRelease(g)
  \/ \E g \in routines : DlDone(g)
  \/ DlReturn

DlSpec == DlInit /\ [][DlNext]_vars

\* The Go scheduler runs every goroutine that can take a step, and each
\* download terminates.
DlFairSpec == DlSpec /\ WF_vars(DlNext)

\* ---------------------------------------- getPkgbuilds, printPkgbuilds

\* cmdArgs.Targets of yippee -G: the targets as typed, among them one given
\* twice.
GetTargetSeqs ==
  {q \in SubSeqs(DlTargetStrs) : Len(q) <= MaxTargets}
  \cup {<<"yippee", "yippee">>, <<"yippee", "aur/yippee-bin", "yippee">>}

\* getPkgbuilds calls PKGBUILDRepos, printPkgbuilds calls PKGBUILDs.
GetInit ==
  /\ InstallerIdle
  /\ HangIdle
  /\ GetIdle
  /\ dlEnv \in {e \in DlEnvs : e.kind = "PKGBUILDs" => ~e.force}
  /\ dlTargets \in GetTargetSeqs
  /\ gitDirs \in {{}, {"yippee"}}
  /\ dlEnv.kind = "PKGBUILDs" => gitDirs = {}
  /\ dlIdx = 1
  /\ routines = {}
  /\ cloned = {}
  /\ dlErrs = <<>>
  /\ resolved = <<>>
  /\ fetches = {}
  /\ dlPc = "loop"
  /\ dlResult = [cloned |-> {}, errs |-> <<>>]
  /\ sem = 0
  /\ mux = 0
  /\ GitIdle

\* The keys of the map a download returned.
MapKeys(m) == {e.target : e \in m}

\* len(targets) != len(cloned), len(pkgbuilds) != len(targets)
LenDiffers(tgts, m) == Len(tgts) # Cardinality(MapKeys(m))

\* What follows the download in both functions: if the map and the targets
\* differ in length the targets without an entry are collected and warned
\* of, and the error is fmt.Errorf(""); else the error is nil.
GetReturn ==
  /\ dlEnv.kind # "none"
  /\ dlPc = "returned"
  /\ ~getOut.done
  /\ getOut' =
       IF LenDiffers(dlTargets, dlResult.cloned)
       THEN [done |-> TRUE, err |-> "error", warned |-> TRUE,
             missing |-> SelectSeq(dlTargets, LAMBDA t : t \notin MapKeys(dlResult.cloned))]
       ELSE [done |-> TRUE, err |-> "nil", warned |-> FALSE, missing |-> <<>>]
  /\ UNCHANGED <<installVars, cfgVars, hangVars, pc, runVars, fanVars, dlVars>>

GetNext == DlNext \/ GetReturn

GetSpec == GetInit /\ [][GetNext]_vars

\* ------------------------------------------------- one downloadGitRepo

\* The calls of downloadGitRepo and what surrounds them: the package, what
\* os.Stat says of finalDir/.git and whether finalDir exists (it does when
\* its .git does), force, and whether os.RemoveAll and git succeed.
GitInputs ==
  {c \in [pkgName : {"linux", "yippee"}, stat : {"ok", "notexist", "error"},
          dirExists : BOOLEAN, force : BOOLEAN, removeOk : BOOLEAN, gitOk : BOOLEAN] :
     c.stat = "ok" => c.dirExists}

\* downloadGitRepo is about to be called.
GitInit ==
  /\ InstallerIdle
  /\ DlIdle
  /\ HangIdle
  /\ GetIdle
  /\ gitIn \in GitInputs
  /\ gitOut = [done |-> FALSE]

\* The call of downloadGitRepo, from its os.Stat to its return.
GitCall ==
  /\ ~gitOut.done
  /\ gitIn.pkgName # ""
  /\ gitOut' = downloadGitRepo(gitIn.stat, gitIn.dirExists, gitIn.force, gitIn.removeOk,
                               gitIn.gitOk)
  /\ UNCHANGED <<dlOthers, dlEnv, dlTargets, gitDirs, dlIdx, routines, cloned, dlErrs,
                 resolved, fetches, dlPc, dlResult, gitIn, sem, mux>>

GitNext == GitCall

GitSpec == GitInit /\ [][GitNext]_vars

\* ------------------------------------------------------ hangingPackages

\* The most dependencies, optional dependencies and provided names the local
\* database holds in all.
MaxDepends == 2
MaxOptDepends == 1
MaxProvides == 2

\* The names a dependency can have: those of the local packages, and "sh",
\* which is no package.
DepNames == LocalNames \cup {"sh"}

\* <<p, d>>: the package p depends on the name d.  The dependencies go
\* down the order of the packages, up it, and to the name that is no package.
DepPairs ==
  {<<"app", "lib">>, <<"lib", "tool">>, <<"tool", "lib">>, <<"lib", "app">>,
   <<"app", "sh">>, <<"tool", "sh">>}

\* The optional dependencies.
OptDepPairs == {<<"app", "lib">>, <<"lib", "tool">>, <<"tool", "sh">>}

\* <<p, d>>: the package p provides the name d: "sh", or for lib the name
\* of tool as well.
ProvidePairs ==
  {<<"app", "sh">>, <<"lib", "sh">>, <<"tool", "sh">>, <<"lib", "tool">>}

\* The local databases and the removeOptional of the calls.
HangInputs ==
  [explicit : {{}, {"app"}, {"tool"}, {"app", "lib"}},
   depends : {d \in SUBSET DepPairs : Cardinality(d) <= MaxDepends},
   optdepends : {d \in SUBSET OptDepPairs : Cardinality(d) <= MaxOptDepends},
   provides : {d \in SUBSET ProvidePairs : Cardinality(d) <= MaxProvides},
   removeOptional : BOOLEAN]

\* hangingPackages is called.
HangInit ==
  /\ InstallerIdle
  /\ DlIdle
  /\ GitIdle
  /\ GetIdle
  /\ hangIn \in HangInputs
  /\ safePackages = [p \in LocalNames |-> 0]
  /\ iterateAgain = FALSE
  /\ hangPc = "mark"
  /\ hanging = <<>>

\* provides[name]: the packages whose PackageProvides holds the name.
Providers(in, name) == {p \in LocalNames : <<p, name>> \in in.provides}

\* The dependencies alone, whatever removeOptional says.
FollowedDepsNoOptional(in, p) == {e[2] : e \in {x \in in.depends : x[1] = p}}

\* deps: PackageDepends(pkg), and PackageOptionalDepends(pkg) appended
\* unless removeOptional.
FollowedDeps(in, p) ==
  {e[2] : e \in {x \in in.depends : x[1] = p}}
  \cup (IF in.removeOptional THEN {}
        ELSE {e[2] : e \in {x \in in.optdepends : x[1] = p}})

\* The packages a dependency name stands for: the package of that name if
\* safePackages has it, else the packages that provide the name.
DepTargets(in, name) == IF name \in LocalNames THEN {name} ELSE Providers(in, name)

\* The body of the inner loop for one package: a package in state 1 moves to
\* state 2 and the packages its dependencies stand for move from 0 to 1,
\* which asks for another pass.
VisitPkg(in, st, p) ==
  IF st.safe[p] \in {0, 2} THEN st
  ELSE LET safe2 == [st.safe EXCEPT ![p] = 2]
           marked == UNION {DepTargets(in, d) : d \in FollowedDeps(in, p)}
           newly == {q \in marked : safe2[q] = 0}
       IN  [safe  |-> [q \in LocalNames |-> IF q \in newly THEN 1 ELSE safe2[q]],
            again |-> st.again \/ newly # {}]

\* for _, pkg := range packages
RECURSIVE VisitAll(_, _, _)
VisitAll(in, st, pkgs) ==
  IF pkgs = <<>> THEN st ELSE VisitAll(in, VisitPkg(in, st, Head(pkgs)), Tail(pkgs))

\* The first loop: explicit packages start in state 1, the others in state 0.
HangMark ==
  /\ hangPc = "mark"
  /\ safePackages' = [p \in LocalNames |-> IF p \in hangIn.explicit THEN 1 ELSE 0]
  /\ iterateAgain' = TRUE
  /\ hangPc' = "loop"
  /\ UNCHANGED <<installVars, cfgVars, pc, runVars, fanVars, dlVars, getOut, hangIn, hanging>>

\* One pass of for iterateAgain.
HangPass ==
  /\ hangPc = "loop"
  /\ iterateAgain
  /\ LET st == VisitAll(hangIn, [safe |-> safePackages, again |-> FALSE], LocalPackages)
     IN  /\ safePackages' = st.safe
         /\ iterateAgain' = st.again
  /\ UNCHANGED <<installVars, cfgVars, pc, runVars, fanVars, dlVars, getOut, hangIn, hangPc, hanging>>

\* The last loop and the return: the packages left in state 0.
HangReturn ==
  /\ hangPc = "loop"
  /\ ~iterateAgain
  /\ hanging' = SelectSeq(LocalPackages, LAMBDA p : safePackages[p] = 0)
  /\ hangPc' = "returned"
  /\ UNCHANGED <<installVars, cfgVars, pc, runVars, fanVars, dlVars, getOut, hangIn, safePackages,
                 iterateAgain>>

HangNext == HangMark \/ HangPass \/ HangReturn

HangSpec == HangInit /\ [][HangNext]_vars

\* The call runs on: hangingPackages is sequential code.
HangFairSpec == HangSpec /\ WF_vars(HangNext)

\* ------------------------------------------------------------- properties

CallIdx == DOMAIN calls

Done == pc = "done"

\* A pacman -S or pacman -U invocation that failed.
FailedTx(k) == calls[k].kind \in {"S", "U"} /\ ~calls[k].ok

\* A makepkg invocation of buildPkg that failed.
FailedMake(k) == calls[k].kind \in {"refresh", "list", "build", "skip"} /\ ~calls[k].ok

\* Whether Install has left the layer with index l behind.
Left(l) == i < l \/ Done

LayerErrors(l) == {errMulti[e].err : e \in {x \in DOMAIN errMulti : errMulti[x].layer = l}}

C3_FailedSetPerPackage ==
  failedAndIgnored = {calls[k].pkg : k \in {x \in CallIdx : FailedMake(x) /\ calls[x].layer = 1}}

\* Both packages of one base failed to build and both are recorded.
C3_Witness ==
  /\ Done
  /\ {"yippee", "bob"} \subseteq failedAndIgnored
  /\ \E k, m \in CallIdx : /\ k # m
                           /\ FailedMake(k) /\ calls[k].pkg = "yippee"
                           /\ FailedMake(m) /\ calls[m].pkg = "bob"

\* C3 as stated: a base whose build failed appears exactly once in the list
\* CompileFailedAndIgnored returns.
C3_Stated ==
  \A b \in Bases :
    Cardinality({n \in CompileFailedAndIgnored.failed : Info[n].AURBase = b}) <= 1

\* C4 (as the code has it): once Install has returned, with nil or with an
\* error, CompileFailedAndIgnored returns a non-nil error exactly when the
\* failed set is non-empty, that is exactly when a build failed in the last
\* layer handled, and the error names every failed package (the keys of the
\* failed set), which need not name the package's base.
C4_CompileFailedAndIgnored ==
  Done =>
    LET r      == CompileFailedAndIgnored
        failed == {calls[k].pkg : k \in {x \in CallIdx : FailedMake(x) /\ calls[x].layer = 1}}
    IN  /\ result \in {"nil", "error"}
        /\ (r.err # "nil") <=> (r.failed # {})
        /\ (r.err # "nil") <=> (failed # {})
        /\ r.failed = failed
        /\ r.names = failed

\* Install returned after a failed build, and the call gives the error.
C4_Witness ==
  /\ Done
  /\ \E k \in CallIdx : FailedMake(k) /\ calls[k].layer = 1
  /\ CompileFailedAndIgnored.err = "FailedIgnoredPkgError"
  /\ CompileFailedAndIgnored.names # {}

\* C4 as stated: the error names the base of every failed entry.
C4_Stated ==
  Done =>
    LET r == CompileFailedAndIgnored
    IN  /\ (r.err # "nil") <=> (r.failed # {})
        /\ \A n \in r.failed : Info[n].AURBase \in r.names

\* The invocations of buildPkg's last step in layer l that yield an archive
\* to install: the command succeeded and the package was not up to date.
Yielding(l) ==
  {k \in CallIdx : /\ calls[k].kind \in {"build", "skip"}
                   /\ calls[k].layer = l
                   /\ calls[k].ok
                   /\ ~downloadOnly
                   /\ ~(needed /\ calls[k].installed)}

\* C5 (as the code has it): a layer with repository packages and built AUR
\* packages is installed by two invocations, not one: a pacman -S that lists
\* the repository packages only, issued before any makepkg invocation of the
\* layer, and a pacman -U that lists only the archives of the packages built
\* in the layer.  Each is issued at most once per layer.
C5_TwoTransactionsPerLayer ==
  \A k \in CallIdx :
    LET c == calls[k]
        l == c.layer
    IN  /\ c.kind \in {"S", "U"} =>
             \A m \in CallIdx : (calls[m].kind = c.kind /\ calls[m].layer = l) => m = k
        /\ c.kind = "S" =>
             /\ c.targets = {CompositeName[n] : n \in SyncNames(targets[l])}
             /\ c.targets \cap AllArchives = {}
             /\ \A m \in CallIdx : (calls[m].layer = l /\ m # k) => m > k
        /\ c.kind = "U" =>
             /\ c.targets = {ArchiveOf[calls[m].pkg] : m \in Yielding(l)}
             /\ c.targets # {}
             /\ c.targets \subseteq AllArchives
             /\ \A m \in CallIdx :
                  (calls[m].layer = l /\ calls[m].kind \in {"S", "refresh", "list", "build", "skip"})
                    => m < k

\* A layer with a repository package and two AUR packages was installed by a
\* successful pacman -S followed by a successful pacman -U.
C5_Witness ==
  \E k, m \in CallIdx :
    /\ k < m
    /\ calls[k].kind = "S" /\ calls[k].ok /\ calls[k].targets = {"core/linux"}
    /\ calls[m].kind = "U" /\ calls[m].ok /\ calls[m].layer = calls[k].layer
    /\ Cardinality(calls[m].targets) = 2
    /\ Done

\* C5 as stated: one install invocation per layer, listing the repository
\* packages and the built archives together.
C5_Stated ==
  \A k, m \in CallIdx :
    (calls[k].kind \in {"S", "U"} /\ calls[m].kind \in {"S", "U"} /\ calls[k].layer = calls[m].layer)
      => k = m

\* C6 (as the code has it): the layers are handled strictly one after the
\* other, but from the last element of the sequence down to the first: the
\* layer index of the invocations never increases, every invocation is for
\* the layer Install stands at, and by its return every layer was handled.
C6_LayersInReverseOrder ==
  /\ \A k \in CallIdx : k > 1 => calls[k - 1].layer >= calls[k].layer
  /\ \A k \in CallIdx : calls[k].layer >= i
  /\ Done => \A l \in 1..Len(targets) : \E k \in CallIdx : calls[k].layer = l

\* Install returned after issuing invocations for the last element and then
\* for the first.
C6_Witness ==
  /\ Done
  /\ Len(targets) = 2
  /\ \E k, m \in CallIdx : k < m /\ calls[k].layer = 2 /\ calls[m].layer = 1

\* C6 as stated: the first element of the sequence is handled first.
C6_Stated ==
  \A k, m \in CallIdx : k < m => calls[k].layer <= calls[m].layer

\* Whether buildPkg found the package of invocation k up to date.
UpToDate(k) == downloadOnly \/ (needed /\ calls[k].installed)

SingleTarget ==
  /\ Done
  /\ targets = <<{"yippee"}>>
  /\ fault.op = "none"
  /\ ~downloadOnly
  /\ \A k \in CallIdx :
       calls[k].kind \in {"build", "skip"} => (~calls[k].built /\ ~calls[k].installed)

RECURSIVE Kinds(_)
Kinds(cs) == IF cs = <<>> THEN <<>> ELSE <<Head(cs).kind>> \o Kinds(Tail(cs))

\* C8 (as the code has it): for a single explicit AUR target the invocations
\* are, in this order: the source refresh, the archive-list query, the full
\* build, the pacman -U of the archive, and the pacman -D --asexplicit of the
\* package; Install returns nil.
C8_SingleTargetSequence ==
  SingleTarget =>
    /\ calls = << MakepkgCall("refresh", 1, "yippee", TRUE),
                  MakepkgCall("list", 1, "yippee", TRUE),
                  Call("build", 1, "yippee", {}, IF keepSrc THEN "" ELSE "-c", TRUE, FALSE, FALSE),
                  PacmanCall("U", 1, {ArchiveOf["yippee"]}, "", TRUE),
                  PacmanCall("D", 1, {"yippee"}, "asexplicit", TRUE) >>
    /\ result = "nil"

\* The run of the single target has returned with its five invocations.
C8_Witness == SingleTarget /\ Len(calls) = 5 /\ calls[5].kind = "D"

\* C8 as stated: the build comes before the archive-list query.
C8_Stated ==
  SingleTarget => Kinds(calls) = <<"refresh", "build", "list", "U", "D">>

\* The packages a successful transaction installed: those of the layer's
\* pacman -S, or those whose archive the layer's pacman -U lists.
InstalledBy(k) ==
  IF calls[k].kind = "S"
  THEN {n \in PkgNames : Info[n].Source = "Sync" /\ CompositeName[n] \in calls[k].targets}
  ELSE {n \in AURPkgs : ArchiveOf[n] \in calls[k].targets}

\* The flag the reason update of a package carries.
ReasonFlag(n) == IF Info[n].Reason = "Explicit" THEN "asexplicit" ELSE "asdeps"

SplitNames == {"yippee", "bob"}

CallsOf(kinds, l) ==
  {k \in CallIdx : calls[k].kind \in kinds /\ calls[k].layer = l /\ calls[k].pkg \in SplitNames}

\* Two packages of one base in layer l, every invocation succeeding, the
\* rebuild not forced, neither download-only nor up to date, layer finished.
SplitLayer(l) ==
  /\ SplitNames \subseteq targets[l]
  /\ fault.op = "none"
  /\ ~downloadOnly
  /\ rebuildMode = "RebuildModeNo"
  /\ Left(l)
  /\ \A k \in CallsOf({"build", "skip"}, l) : ~UpToDate(k)

\* C10 (as the code has it): buildPkg runs once per package, not once per
\* base.  For two packages of one base in a layer there are two source
\* refreshes and two archive-list calls, one of each per package; the full
\* build is issued at most once (for the first of the two, when the archives
\* do not exist yet: the second finds them made and gets the skip command);
\* and one pacman -U lists the archives of both packages.
C10_SplitPackage ==
  \A l \in 1..Len(targets) :
    SplitLayer(l) =>
      /\ \A n \in SplitNames :
           /\ Cardinality({k \in CallsOf({"refresh"}, l) : calls[k].pkg = n}) = 1
           /\ Cardinality({k \in CallsOf({"list"}, l) : calls[k].pkg = n}) = 1
           /\ Cardinality({k \in CallsOf({"build", "skip"}, l) : calls[k].pkg = n}) = 1
      /\ Cardinality(CallsOf({"build"}, l)) <= 1
      /\ Cardinality(CallsOf({"build"}, l)) = 1
           <=> (\E k \in CallsOf({"build", "skip"}, l) : ~calls[k].built)
      /\ \E k \in CallIdx :
           /\ calls[k].kind = "U"
           /\ calls[k].layer = l
           /\ {ArchiveOf[n] : n \in SplitNames} \subseteq calls[k].targets
           /\ \A m \in CallIdx : (calls[m].kind = "U" /\ calls[m].layer = l) => m = k

\* Both packages of the base went through buildPkg in one layer: one was
\* built, the other skipped, and one pacman -U installed both archives.
C10_Witness ==
  \E l \in 1..Len(targets) :
    /\ SplitLayer(l)
    /\ Done
    /\ Cardinality(CallsOf({"build"}, l)) = 1
    /\ Cardinality(CallsOf({"skip"}, l)) = 1
    /\ \E k \in CallIdx : /\ calls[k].kind = "U" /\ calls[k].ok /\ calls[k].layer = l
                          /\ {ArchiveOf[n] : n \in SplitNames} \subseteq calls[k].targets

\* C10 as stated: one archive-list call and one build invocation for the
\* shared base.
C10_Stated ==
  \A l \in 1..Len(targets) :
    SplitLayer(l) =>
      /\ Cardinality(CallsOf({"list"}, l)) = 1
      /\ Cardinality(CallsOf({"build", "skip"}, l)) = 1

\* C11 (as the code has it): in download-only mode Install issues no
\* pacman -U and no reason update for an AUR package, whatever the layers
\* hold; for the repository packages of a layer it still issues the layer's
\* pacman -S.
C11_DownloadOnlyInvocations ==
  downloadOnly =>
    /\ \A k \in CallIdx :
         /\ calls[k].kind # "U"
         /\ calls[k].kind = "D" => calls[k].targets \cap AURPkgs = {}
    /\ installed = {}
    /\ \A l \in 1..Len(targets) :
         (Left(l) /\ SyncNames(targets[l]) # {}) =>
           \E k \in CallIdx : /\ calls[k].kind = "S"
                              /\ calls[k].layer = l
                              /\ calls[k].targets = {CompositeName[n] : n \in SyncNames(targets[l])}

\* A download-only run has returned after a pacman -S for a repository
\* package and the makepkg invocations for an AUR package.
C11_Witness ==
  /\ downloadOnly
  /\ Done
  /\ \E k, m \in CallIdx : /\ calls[k].kind = "S" /\ calls[k].ok
                           /\ calls[m].kind = "skip" /\ calls[m].ok

\* C11 as stated: no package-manager invocation for an install or a reason
\* update is issued in download-only mode.
C11_Stated ==
  downloadOnly => \A k \in CallIdx : calls[k].kind \notin {"S", "U", "D"}

\* C12 (as the code has it): in download-only mode no build is performed.
\* An AUR package, with or without an archive, gets the source refresh, the
\* archive-list query and the no-build command (makepkg -c --nobuild
\* --noextract); no archive is produced.
C12_DownloadOnlyNoBuild ==
  downloadOnly =>
    /\ \A k \in CallIdx : calls[k].kind # "build"
    /\ disk \in DiskChoices
    /\ \A k \in CallIdx : calls[k].kind = "skip" => (calls[k].built <=> disk = AllArchives)
    /\ (Done /\ fault.op \notin {"refresh", "empty", "S"}) =>
         \A l \in 1..Len(targets) : \A n \in AURNames(targets[l]) :
           \E k \in CallIdx : /\ k > 2
                              /\ calls[k].kind = "skip" /\ calls[k].ok
                              /\ calls[k].layer = l /\ calls[k].pkg = n
                              /\ calls[k - 1].kind = "list" /\ calls[k - 1].pkg = n
                              /\ calls[k - 2].kind = "refresh" /\ calls[k - 2].pkg = n

\* A download-only run has returned; the package had no archive, got the
\* no-build command, and there is still no archive.
C12_Witness ==
  /\ downloadOnly
  /\ Done
  /\ disk = {}
  /\ \E k \in CallIdx : calls[k].kind = "skip" /\ ~calls[k].built /\ calls[k].pkg = "yippee"

\* C12 as stated: in download-only mode a package without an archive gets
\* the build step.
C12_Stated ==
  downloadOnly =>
    \A k \in CallIdx :
      (calls[k].kind \in {"build", "skip"} /\ ~calls[k].built) => calls[k].kind = "build"

\* A run that has returned, started with every AUR package built and
\* installed at its version, the rebuild not forced, every invocation
\* succeeding: the second of two runs with the same inputs.
SecondRun ==
  /\ Done
  /\ rebuildMode = "RebuildModeNo"
  /\ ~downloadOnly
  /\ fault.op = "none"
  /\ \A k \in CallIdx :
       calls[k].kind \in {"build", "skip"} => (calls[k].built /\ calls[k].installed)

\* The packages of all layers.
AllTargets == UnionOf(targets)

\* C13 (as the code has it): the second run issues no build step, but it
\* does issue reason updates.  Without --needed every AUR package gets the
\* skip command, its archive is installed again by pacman -U and its reason
\* update follows; with --needed an AUR package gets neither.  A repository
\* package is installed by pacman -S and gets its reason update again in
\* either case.
C13_SecondRun ==
  SecondRun =>
    /\ result = "nil"
    /\ \A k \in CallIdx : calls[k].kind # "build"
    /\ \A n \in AllTargets \cap AURPkgs :
         /\ \E k \in CallIdx : calls[k].kind = "skip" /\ calls[k].pkg = n
         /\ ~needed <=> \E k \in CallIdx : calls[k].kind = "U" /\ ArchiveOf[n] \in calls[k].targets
         /\ ~needed <=> \E k \in CallIdx : /\ calls[k].kind = "D"
                                           /\ n \in calls[k].targets
                                           /\ calls[k].flag = ReasonFlag(n)
    /\ \A n \in AllTargets \ AURPkgs :
         \E k \in CallIdx : /\ calls[k].kind = "D"
                            /\ n \in calls[k].targets
                            /\ calls[k].flag = ReasonFlag(n)

\* The second run, without --needed, has marked the installed target
\* explicit again.
C13_Witness ==
  /\ SecondRun
  /\ ~needed
  /\ \E k \in CallIdx : /\ calls[k].kind = "D"
                        /\ calls[k].flag = "asexplicit"
                        /\ "yippee" \in calls[k].targets
  /\ \E k \in CallIdx : calls[k].kind = "skip" /\ calls[k].installed

\* C13 as stated: the second run issues no build step and no reason update.
C13_Stated ==
  SecondRun => \A k \in CallIdx : calls[k].kind \notin {"build", "D"}

\* Whether the archive of n was installed and n's reason updated in layer l.
InstalledIn(n, l) ==
  /\ \E k \in CallIdx : /\ calls[k].kind = "U" /\ calls[k].layer = l /\ calls[k].ok
                        /\ ArchiveOf[n] \in calls[k].targets
  /\ \E k \in CallIdx : /\ calls[k].kind = "D" /\ calls[k].layer = l
                        /\ n \in calls[k].targets /\ calls[k].flag = ReasonFlag(n)

\* Whether layer l issued a pacman -U with the archive of n or a pacman -D
\* naming n.
TouchedIn(n, l) ==
  \E k \in CallIdx : /\ calls[k].layer = l
                     /\ \/ calls[k].kind = "U" /\ ArchiveOf[n] \in calls[k].targets
                        \/ calls[k].kind = "D" /\ n \in calls[k].targets

\* What --needed does to the package of the makepkg invocation k, the
\* rebuild being forced for the packages `forced` says.
NeededPolicy(k, forced(_)) ==
  LET n == calls[k].pkg
      l == calls[k].layer
  IN  /\ k > 2
      /\ calls[k - 1].kind = "list" /\ calls[k - 1].pkg = n
      /\ calls[k - 2].kind = "refresh" /\ calls[k - 2].pkg = n
      /\ calls[k].installed =>
           /\ calls[k].kind = "skip"
           /\ Left(l) => ~TouchedIn(n, l)
      /\ (~calls[k].installed /\ calls[k].built /\ ~forced(n)) =>
           /\ calls[k].kind = "skip"
           /\ Left(l) => InstalledIn(n, l)

RebuildForced(n) == rebuildMode = "RebuildModeYes" /\ n \in origTargets

NeverForced(n) == FALSE

\* C14 (as the code has it): with --needed, every invocation succeeding, an
\* AUR package gets the source refresh and the archive list first.  If the
\* packages of its list are installed at their version it then gets the skip
\* command, no pacman -U and no reason update.  If they are not, its archive
\* exists and the rebuild is not forced for it (--rebuild and a target), it
\* gets the skip command, and its archive is installed and its reason
\* updated; a target with an archive is built again under --rebuild.
C14_Needed ==
  (needed /\ fault.op = "none") =>
    \A k \in CallIdx :
      calls[k].kind \in {"build", "skip"} => NeededPolicy(k, RebuildForced)

\* With --needed a package not installed whose archive exists got the skip
\* command and was installed, and Install returned.
C14_Witness ==
  /\ needed
  /\ fault.op = "none"
  /\ Done
  /\ \E k \in CallIdx : /\ calls[k].kind = "skip"
                        /\ ~calls[k].installed /\ calls[k].built
                        /\ InstalledIn(calls[k].pkg, calls[k].layer)

\* C14 as stated: the existing archive of a package that is not installed is
\* never built again.
C14_Stated ==
  (needed /\ fault.op = "none") =>
    \A k \in CallIdx :
      calls[k].kind \in {"build", "skip"} => NeededPolicy(k, NeverForced)

\* A build that exited 0 and left no archive, none being there before it.
MissingArchive(k) ==
  /\ calls[k].kind = "build"
  /\ calls[k].ok
  /\ ~calls[k].built
  /\ fault.op = "noarchive"
  /\ Info[calls[k].pkg].AURBase = fault.base
  /\ \/ fault.sticky
     \/ \A m \in CallIdx :
          (m < k /\ calls[m].kind = "build") => Info[calls[m].pkg].AURBase # fault.base

RegistrationOrder == SelectSeq(HookFuncs, LAMBDA h : h \in cleanFuncs)

\* The registered hooks that return an error, in registration order.
FailingHooks == SelectSeq(RegistrationOrder, LAMBDA h : h \in hookFails)

\* RunPostInstallHooks has returned.
HooksReturned == runPc = "returned" /\ result = "nil"

\* C16: RunPostInstallHooks calls every registered hook exactly once, in
\* the order of registration; a hook that returns an error does not stop the
\* later ones, and what it returns holds the errors of all the failing hooks
\* (nil when none failed).
C16_RunPostInstallHooks ==
  /\ Len(hooksRun) <= Len(RegistrationOrder)
  /\ hooksRun = SubSeq(RegistrationOrder, 1, Len(hooksRun))
  /\ hookErrs = SelectSeq(hooksRun, LAMBDA h : h \in hookFails)
  /\ HooksReturned =>
       /\ hooksRun = RegistrationOrder
       /\ hookErrs = FailingHooks
       /\ FailingHooks = <<>> => \A e \in DOMAIN runResult : runResult[e].kind # "hooks"
       /\ FailingHooks # <<>> =>
            /\ runResult # <<>>
            /\ runResult[Len(runResult)] = RunErr("hooks", {}, FailingHooks)
            /\ \A e \in 1..(Len(runResult) - 1) : runResult[e].kind # "hooks"

\* Two hooks were registered, the first returned an error and the second,
\* which did not, was called after it.
C16_Witness ==
  /\ HooksReturned
  /\ hooksRun = HookFuncs
  /\ hookFails = {HookFuncs[1]}
  /\ runResult[Len(runResult)].hooks = <<HookFuncs[1]>>

\* An invocation of Install that failed.
FailedCall(k) == FailedTx(k) \/ FailedMake(k)

\* C17: in a run of OperationService.Run the registered hooks are run after
\* the layers whatever failed in them: when a build failed as well as when a
\* layer's install transaction failed.
C17_Stated ==
  runPc = "returned" /\ (\E k \in CallIdx : FailedCall(k)) => hooksRun = RegistrationOrder

\* The install transaction of the only layer failed, and Run returned with a
\* registered hook that was never called.
C17_Witness ==
  /\ runPc = "returned"
  /\ Len(targets) = 1
  /\ \E k \in CallIdx : calls[k].kind = "U" /\ ~calls[k].ok
  /\ postInstallHooks # <<>>
  /\ hooksRun = <<>>
  /\ runResult = <<RunErr("errInstall", {}, <<>>)>>

\* C18: with a limit K > 0, never more than K invocations of the
\* downloader are in flight, however many directories there are.
C18_FanoutBound ==
  maxConcurrentDownloads > 0 => Cardinality(inFlight) <= maxConcurrentDownloads

\* The limit is reached while a directory is still waiting for a slot.
C18_Witness ==
  /\ maxConcurrentDownloads > 0
  /\ Cardinality(inFlight) = maxConcurrentDownloads
  /\ pkgBuildDirs \ (inFlight \cup finished) # {}

\* The bases whose invocation has not started.
Waiting == pkgBuildDirs \ (inFlight \cup finished)

Collected == {fanErrs[e] : e \in DOMAIN fanErrs}

\* C20: the downloader makes exactly one invocation for every directory,
\* whatever the limit and whichever of them fail; it returns only when all
\* have finished, nil if none failed and otherwise an error with exactly one
\* entry per failed directory.
C20_FanoutComplete ==
  /\ \A base \in pkgBuildDirs :
       invoked[base] = IF base \in inFlight \cup finished THEN 1 ELSE 0
  /\ Len(fanErrs) = Cardinality(Collected)
  /\ Collected = finished \cap dirFails
  /\ fanPc = "returned" =>
       /\ inFlight = {}
       /\ finished = pkgBuildDirs
       /\ \A base \in pkgBuildDirs : invoked[base] = 1
       /\ fanResult = fanErrs
       /\ (fanResult = <<>>) <=> (dirFails = {})
       /\ Len(fanResult) = Cardinality(dirFails)
       /\ {fanResult[e] : e \in DOMAIN fanResult} = dirFails

\* Every directory failed, under a limit smaller than their number, and the
\* error returned has an entry for each.
C20_Witness ==
  /\ fanPc = "returned"
  /\ Cardinality(pkgBuildDirs) = MaxDirs
  /\ dirFails = pkgBuildDirs
  /\ maxConcurrentDownloads = 2
  /\ Len(fanResult) = MaxDirs

\* What Run returned names every package of the Failed-and-Ignored Set.
ReturnsFailedBuilds ==
  \E e \in DOMAIN runResult : /\ runResult[e].kind = "FailedIgnoredPkgError"
                               /\ runResult[e].names = failedAndIgnored

\* What Run returned holds the error of every hook that failed.
ReturnsFailedHooks ==
  \E e \in DOMAIN runResult : /\ runResult[e].kind = "hooks"
                               /\ runResult[e].hooks = FailingHooks

\* C21: Run never loses a failure: when a build failed (the
\* Failed-and-Ignored Set is not empty) or a registered hook fails, Run
\* returns an error that holds each of those failures, and the failed build
\* does not keep the hooks from being run.
C21_Stated ==
  runPc = "returned" =>
    /\ failedAndIgnored # {} => ReturnsFailedBuilds /\ hooksRun = RegistrationOrder
    /\ failedAndIgnored # {} /\ FailingHooks # <<>> => ReturnsFailedHooks

\* The build of one package of the only layer failed and was recorded, the
\* pacman -U of the other failed, and Run returned the error of Install
\* alone, without running the registered hook.
C21_Witness ==
  /\ runPc = "returned"
  /\ failedAndIgnored = {"yippee"}
  /\ \E k \in CallIdx : calls[k].kind = "U" /\ ~calls[k].ok
  /\ runResult = <<RunErr("errInstall", {}, <<>>)>>
  /\ postInstallHooks # <<>>
  /\ hooksRun = <<>>

\* C22: Run notifies the version-control store at most once, only after
\* Install has returned without error and only when download-only is not
\* requested, with the failed list obtained after Install; the notification
\* comes before the hooks are run, and its failure is not part of what Run
\* returns.
C22_UpdateVCSStore ==
  /\ Len(vcsUpdates) <= 1
  /\ vcsUpdates # <<>> =>
       /\ result = "nil"
       /\ ~downloadOnly
       /\ vcsUpdates[1].failed = failedAndIgnored
       /\ vcsUpdates[1].hooksRun = <<>>
  /\ hooksRun # <<>> /\ ~downloadOnly => vcsUpdates # <<>>
  /\ runPc = "returned" /\ result = "nil" /\ ~downloadOnly => vcsUpdates # <<>>
  /\ runPc = "returned" /\ result = "nil" /\ failedAndIgnored = {} /\ FailingHooks = <<>>
       => runResult = <<>>

\* The notification failed in a run with a failed build; a hook was run
\* after it, and Run returned the failed build alone.
C22_Witness ==
  /\ runPc = "returned"
  /\ vcsUpdates # <<>>
  /\ ~vcsUpdates[1].ok
  /\ vcsUpdates[1].failed = {"yippee"}
  /\ hooksRun # <<>>
  /\ FailingHooks = <<>>
  /\ Len(runResult) = 1
  /\ runResult[1].kind = "FailedIgnoredPkgError"

\* The targets getPackageUsableName did not skip, by position.
Resolved == {k \in DOMAIN resolved : ~resolved[k].usable.toSkip}

\* The downloads that succeeded, and those that failed.
FetchedOk == {f \in fetches : f.ok}
FetchedBad == {f \in fetches : ~f.ok}

\* C23: the map PKGBUILDRepos / PKGBUILDs returns has an entry for exactly
\* the targets that were resolved and whose download succeeded (for
\* PKGBUILDRepos its value tells whether it was a new clone), every failed
\* download adds one error to the error returned, and a failed target does
\* not keep the others from being downloaded and recorded.
C23_DownloadResult ==
  /\ \A f1, f2 \in fetches : f1.idx = f2.idx => f1 = f2
  /\ {f.idx : f \in fetches} \subseteq Resolved
  /\ dlPc = "returned" =>
       /\ Len(resolved) = Len(dlTargets)
       /\ {f.idx : f \in fetches} = Resolved
       /\ {e.target : e \in dlResult.cloned} = {f.target : f \in FetchedOk}
       /\ Cardinality(dlResult.cloned) = Cardinality(FetchedOk)
       /\ dlEnv.kind = "PKGBUILDRepos" =>
            \A e \in dlResult.cloned :
              \E f \in FetchedOk : f.target = e.target /\ f.newClone = e.val
       /\ Len(dlResult.errs) = Cardinality(FetchedBad)
       /\ {dlResult.errs[k] : k \in DOMAIN dlResult.errs} = {f.target : f \in FetchedBad}

\* PKGBUILDRepos returned after the download of a repository target failed
\* first: the later AUR target is in the map as a new clone, with one error
\* and a skipped target besides.
C23_Witness ==
  /\ dlPc = "returned"
  /\ dlEnv.kind = "PKGBUILDRepos"
  /\ dlTargets = <<"core/yippee", "extra/yippee", "yippee-bin">>
  /\ dlResult.errs = <<"core/yippee">>
  /\ dlResult.cloned = {[target |-> "yippee-bin", val |-> TRUE]}

\* The repository prefix and the name of the target at a position.
PrefixOf(k) == SplitDBFromName[resolved[k].target].db
NameOf(k) == SplitDBFromName[resolved[k].target].name

\* The target at a position resolved to the AUR, or to a repository.
ToAUR(k) == ~resolved[k].usable.toSkip /\ resolved[k].usable.isAUR
ToRepo(k) == ~resolved[k].usable.toSkip /\ ~resolved[k].usable.isAUR

\* The target at a position has a repository prefix and the repository
\* does not hold it.
NotInItsRepo(k) ==
  /\ PrefixOf(k) \notin {"", "aur"}
  /\ ~(NameOf(k) \in DOMAIN absPackagesDB /\ absPackagesDB[NameOf(k)] = PrefixOf(k))

\* The target at a position has no prefix and a sync repository holds it.
PlainInRepo(k) == PrefixOf(k) = "" /\ NameOf(k) \in DOMAIN absPackagesDB

\* The rules of resolution that hold in every mode: nothing resolves to the
\* AUR in repo-only mode, and an aur/ target never resolves to a repository
\* and is skipped when the AUR has nothing for it or fails.
ResolvedInEveryMode(k) ==
  /\ dlEnv.mode = "ModeRepo" => ~ToAUR(k)
  /\ PrefixOf(k) = "aur" =>
       /\ ~ToRepo(k)
       /\ dlEnv.aur \in {"none", "error"} => resolved[k].usable.toSkip

\* The rules about repositories: a prefixed target its repository does not
\* hold is skipped and the AUR not asked; a plain target a repository holds
\* resolves to that repository.
ResolvedByRepo(k) ==
  /\ NotInItsRepo(k) => resolved[k].usable.toSkip /\ ~resolved[k].usable.aurAsked
  /\ PlainInRepo(k) => ToRepo(k) /\ resolved[k].usable.dbname = absPackagesDB[NameOf(k)]

\* C24 as amended: in the modes that include the repositories (any,
\* repo-only) a target with a repository prefix other than aur that its
\* repository does not hold is skipped without an error and the AUR is not
\* asked for it, and a target without prefix that a sync repository holds
\* resolves to that repository even when the AUR has it; in repo-only mode
\* nothing resolves to the AUR; an aur/ target never resolves to a
\* repository and is skipped when the AUR has no package or fails.
C24_TargetResolution ==
  \A k \in DOMAIN resolved :
    /\ ResolvedInEveryMode(k)
    /\ dlEnv.mode \in {"ModeAny", "ModeRepo"} => ResolvedByRepo(k)
    /\ NotInItsRepo(k) /\ resolved[k].usable.toSkip =>
         \A e \in DOMAIN dlErrs : dlErrs[e] # resolved[k].target

\* With an AUR that has every package and all sources allowed, extra/yippee
\* was skipped without the AUR being asked and yippee resolved to core.
C24_Witness ==
  /\ dlPc = "returned"
  /\ dlEnv.mode = "ModeAny"
  /\ dlEnv.aur = "all"
  /\ dlTargets = <<"extra/yippee", "yippee", "aur/yippee-bin">>
  /\ resolved[1].usable.toSkip /\ ~resolved[1].usable.aurAsked
  /\ ToRepo(2) /\ resolved[2].usable.dbname = "core"
  /\ ToAUR(3)

\* C24: the rules about repositories hold whatever the mode.
C24_Stated ==
  \A k \in DOMAIN resolved : ResolvedInEveryMode(k) /\ ResolvedByRepo(k)

\* What every call of downloadGitRepo does, whatever it finds: a clone
\* where there is no .git or force is set and .git can be read, after
\* removing an existing directory under force; a pull where .git exists
\* without force; newClone only for a clone that succeeded, and false with
\* an error when the git command fails or .git cannot be read.
CloneOrPull ==
  /\ gitIn.stat = "notexist" \/ (gitIn.stat = "ok" /\ gitIn.force) =>
       /\ gitOut.cmds \in {<<>>, <<"clone">>}
       /\ gitOut.cmds = <<"clone">> => gitOut.removed = (gitIn.force /\ gitIn.dirExists)
       /\ gitOut.cmds = <<"clone">> /\ gitIn.gitOk =>
            gitOut.newClone /\ gitOut.err = "nil"
  /\ gitIn.stat = "ok" /\ ~gitIn.force =>
       /\ gitOut.cmds = <<"pull">>
       /\ ~gitOut.removed
       /\ ~gitOut.newClone
       /\ gitIn.gitOk => gitOut.err = "nil"
  /\ gitOut.cmds # <<>> /\ ~gitIn.gitOk => ~gitOut.newClone /\ gitOut.err # "nil"
  /\ gitIn.stat = "error" => ~gitOut.newClone /\ gitOut.err # "nil"
  /\ gitOut.err # "nil" => ~gitOut.newClone

\* C25 as amended: at most one git command is issued per call, and none
\* when .git cannot be read or when the directory to replace under force
\* cannot be removed: both return newClone=false with an error.  Otherwise
\* exactly one is issued: a clone, or a pull, as CloneOrPull says.
C25_CloneOrPull ==
  gitOut.done =>
    /\ CloneOrPull
    /\ Len(gitOut.cmds) <= 1
    /\ gitOut.cmds = <<>> <=>
         \/ gitIn.stat = "error"
         \/ /\ gitIn.stat \in {"notexist", "ok"}
            /\ gitIn.force /\ gitIn.dirExists /\ ~gitIn.removeOk
    /\ gitOut.cmds = <<>> => ~gitOut.newClone /\ gitOut.err # "nil" /\ ~gitOut.removed

\* Under force the directory with its .git was removed and cloned anew.
C25_Witness ==
  /\ gitOut.done
  /\ gitIn.stat = "ok" /\ gitIn.force
  /\ gitOut.removed
  /\ gitOut.cmds = <<"clone">>
  /\ gitOut.newClone

\* C25: exactly one git command is issued by every call.
C25_Stated ==
  gitOut.done => CloneOrPull /\ Len(gitOut.cmds) = 1

\* C26: the Failed-and-Ignored Set only grows during a run: what was
\* recorded is never removed, neither by a later layer, by a later
\* successful build of the same base, nor by CompileFailedAndIgnored or
\* RunPostInstallHooks.
C26_FailedSetGrows == [][failedAndIgnored \subseteq failedAndIgnored']_vars

\* yippee was recorded, bob of the same base was then built and installed,
\* the failed list was compiled and a hook run: yippee is still recorded.
C26_Witness ==
  /\ runPc = "returned"
  /\ failedAndIgnored = {"yippee"}
  /\ \E k1, k2 \in CallIdx :
       /\ k1 < k2
       /\ calls[k1].kind = "build" /\ calls[k1].pkg = "yippee" /\ ~calls[k1].ok
       /\ calls[k2].kind = "build" /\ calls[k2].pkg = "bob" /\ calls[k2].ok
  /\ \E k \in CallIdx : calls[k].kind = "U" /\ calls[k].ok
  /\ ReturnsFailedBuilds
  /\ hooksRun # <<>>

\* The archive of n was in a pacman -U that succeeded.
OutcomeInstalled(n) ==
  \E k \in CallIdx : calls[k].kind = "U" /\ calls[k].ok /\ ArchiveOf[n] \in calls[k].targets

\* n was skipped because the right version is installed.
OutcomeUpToDate(n) ==
  \E k \in CallIdx : /\ calls[k].kind = "skip" /\ calls[k].pkg = n /\ calls[k].ok
                      /\ needed /\ calls[k].installed

\* n is in the Failed-and-Ignored Set.
OutcomeFailed(n) == n \in failedAndIgnored

\* How many of the three outcomes n has.
Outcomes(n) ==
  (IF OutcomeInstalled(n) THEN 1 ELSE 0) + (IF OutcomeUpToDate(n) THEN 1 ELSE 0)
  + (IF OutcomeFailed(n) THEN 1 ELSE 0)

\* The archive of n was installed by a pacman -U of a layer other than the
\* last whose reason update then failed, so that the layer was rolled up.
RolledUpAfterInstall(n) ==
  \E k, d \in CallIdx :
    /\ k < d
    /\ calls[k].kind = "U" /\ calls[k].ok /\ ArchiveOf[n] \in calls[k].targets
    /\ calls[d].kind = "D" /\ ~calls[d].ok
    /\ calls[d].layer = calls[k].layer /\ calls[k].layer > 1

\* C27 (as the code has it): when Install returns nil and is not
\* download-only, every AUR package of every layer has at least one outcome:
\* its archive was in a successful pacman -U, it was skipped as installed at
\* the right version, or it is in the Failed-and-Ignored Set. It has exactly
\* one, except that a package installed by a layer whose reason update then
\* failed is rolled up into the next layer and, under --needed, skipped
\* there as installed: it is both installed and skipped, never failed.
C27_Outcomes ==
  result = "nil" /\ ~downloadOnly =>
    \A n \in AURNames(AllTargets) :
      /\ Outcomes(n) >= 1
      /\ Outcomes(n) > 1 =>
           /\ RolledUpAfterInstall(n)
           /\ OutcomeInstalled(n) /\ OutcomeUpToDate(n) /\ ~OutcomeFailed(n)

IsMakepkg(k) == calls[k].kind \in {"refresh", "list", "build", "skip"}

SameBuildCall(a, b) == calls[a].pkg = calls[b].pkg /\ calls[a].layer = calls[b].layer

\* C28 (as the code has it): for one package of a layer the invocations are,
\* each a distinct one and each only after the one before exited 0: the
\* refresh, then the archive-list query, then the build or (when the skip
\* policy applies) the skip command; the existence of the listed archive is
\* checked after that: an archive goes into pacman -U, and a missing one is
\* reported, only once the build or skip command of its package has exited 0.
C28_BuildSteps ==
  /\ \A k \in CallIdx :
       /\ calls[k].kind = "list" =>
            k > 1 /\ calls[k - 1].kind = "refresh" /\ calls[k - 1].ok /\ SameBuildCall(k - 1, k)
       /\ calls[k].kind \in {"build", "skip"} =>
            k > 1 /\ calls[k - 1].kind = "list" /\ calls[k - 1].ok /\ SameBuildCall(k - 1, k)
       /\ calls[k].kind = "refresh" =>
            \A j \in CallIdx : j < k /\ IsMakepkg(j) /\ SameBuildCall(j, k) => FALSE
  /\ \A u \in CallIdx : \A n \in AURPkgs :
       calls[u].kind = "U" /\ ArchiveOf[n] \in calls[u].targets =>
         /\ ArchiveOf[n] \in disk
         /\ \E k \in CallIdx : /\ k < u
                               /\ calls[k].kind \in {"build", "skip"} /\ calls[k].ok
                               /\ calls[k].pkg = n /\ calls[k].layer = calls[u].layer
  /\ (\E n \in AURPkgs : layerErr = FindPkgDestError[n]) =>
       /\ calls # <<>>
       /\ calls[Len(calls)].kind \in {"build", "skip"} /\ calls[Len(calls)].ok
       /\ layerErr = FindPkgDestError[calls[Len(calls)].pkg]
       /\ ArchiveOf[calls[Len(calls)].pkg] \notin disk

\* Both orders happened in one run: a package was refreshed, listed, built
\* and its archive taken for pacman -U, and another was refreshed, listed
\* and its skip command run.
C28_Witness ==
  \E b, s \in CallIdx :
    /\ calls[b].kind = "build" /\ calls[b].ok
    /\ calls[s].kind = "skip" /\ calls[s].ok /\ calls[s].built
    /\ calls[b].layer = calls[s].layer
    /\ \E u \in CallIdx : /\ calls[u].kind = "U" /\ calls[u].layer = calls[b].layer
                          /\ ArchiveOf[calls[b].pkg] \in calls[u].targets
                          /\ ArchiveOf[calls[s].pkg] \in calls[u].targets

\* C28 as stated: the archive-list query of a package is not issued before
\* its build finished.
C28_Stated ==
  \A k, b \in CallIdx :
    calls[k].kind = "list" /\ calls[b].kind = "build" /\ SameBuildCall(k, b) => b < k

C30_KeepSrc ==
  \A k \in CallIdx :
    IsMakepkg(k) =>
      /\ keepSrc => calls[k].flag = ""
      /\ ~keepSrc /\ calls[k].kind = "refresh" => calls[k].flag = "-C"
      /\ ~keepSrc /\ calls[k].kind \in {"build", "skip"} => calls[k].flag = "-c"
      /\ calls[k].kind = "list" => calls[k].flag = ""

\* TestInstaller_KeepSrc: --keepsrc, the archive of yippee exists, and
\* Install returned nil after the refresh and the skip command, both without
\* a clean flag.
C30_Witness ==
  /\ keepSrc /\ Done /\ result = "nil"
  /\ \E r, m \in CallIdx :
       /\ r < m
       /\ calls[r].kind = "refresh" /\ calls[r].pkg = "yippee" /\ calls[r].flag = ""
       /\ calls[m].kind = "skip" /\ calls[m].pkg = "yippee" /\ calls[m].built
       /\ calls[m].flag = ""
  /\ \E u \in CallIdx : calls[u].kind = "U" /\ calls[u].ok

\* C31 as stated: a pacman -D that fails is no error of its layer, the
\* reason updates still pending are issued, and Install does not return an
\* error because of it.
C31_Stated ==
  \A k \in CallIdx :
    calls[k].kind = "D" /\ ~calls[k].ok =>
      /\ layerErr # "error updating package install reason"
      /\ \A l \in 1..Len(targets) : "error updating package install reason" \notin LayerErrors(l)
      /\ (Done /\ \A m \in CallIdx : ~calls[m].ok => calls[m].kind = "D") => result = "nil"

\* The only failure of the run is the pacman -D of the last layer, after a
\* pacman -U that installed the package, and Install returned an error.
C31_Witness ==
  /\ Done /\ result = "error"
  /\ errMulti = <<[layer |-> 1, err |-> "error updating package install reason"]>>
  /\ \A k \in CallIdx : ~calls[k].ok => calls[k].kind = "D"
  /\ \E u, d \in CallIdx : /\ u < d
                           /\ calls[u].kind = "U" /\ calls[u].ok
                           /\ calls[d].kind = "D" /\ ~calls[d].ok /\ calls[d].layer = 1

\* The goroutines that hold a slot of sem, and those inside the section
\* that mux guards.
HoldSlot == {g \in routines : g.at # "done"}

InMux == {g \in routines : g.at \in {"write", "unlock"}}

\* C32: at most MaxConcurrentFetch download goroutines hold a slot at any
\* time: the slot is taken before the goroutine is started and given back
\* when it ends, so sem counts exactly the goroutines at work.  A goroutine
\* writes the result map only while it holds mux, and at most one holds it.
C32_BoundedFetch ==
  /\ sem = Cardinality(HoldSlot)
  /\ sem <= MaxConcurrentFetch
  /\ Cardinality(InMux) <= 1
  /\ \A g \in InMux : mux = g.idx
  /\ InMux = {} => mux = 0

\* The channel is full while the loop has a target left to start, one
\* goroutine is about to write the map and another waits for mux.
C32_Witness ==
  /\ sem = MaxConcurrentFetch
  /\ dlPc = "loop" /\ dlIdx <= Len(dlTargets)
  /\ ~getPackageUsableName(dlTargets[dlIdx], dlEnv.mode, dlEnv.aur).toSkip
  /\ \E g, h \in routines : g.at = "write" /\ h.at = "lock"

\* C33: PKGBUILDs and PKGBUILDRepos always return, and when they do every
\* goroutine they started has downloaded and ended, on the success and on
\* the failure path, the channel sem is empty and mux is unlocked.
C33_FetchTerminates ==
  /\ <>(dlPc = "returned")
  /\ [](dlPc = "returned" =>
          /\ routines = {}
          /\ sem = 0
          /\ mux = 0
          /\ \A r \in DOMAIN resolved :
               ~resolved[r].usable.toSkip => \E f \in fetches : f.idx = r)

\* The call returned after more downloads than the channel has slots, some
\* of which failed and some of which succeeded.
C33_Witness ==
  /\ dlPc = "returned"
  /\ Cardinality(fetches) > MaxConcurrentFetch
  /\ \E f, g \in fetches : f.ok /\ ~g.ok
  /\ sem = 0

\* C34: once the context is cancelled no task starts its invocation (the
\* count of invocations of every directory stays as it is), the invocations
\* that were in flight have been told to terminate, and the downloader
\* always returns, cancelled or not.
C34_Cancellation ==
  /\ [][cancelled => invoked' = invoked]_vars
  /\ [](cancelled => inFlight \subseteq signalled)
  /\ <>(fanPc = "returned")

\* The downloader returned after a cancellation that found one invocation
\* in flight and the task of another directory waiting, which never started.
C34_Witness ==
  /\ fanPc = "returned"
  /\ cancelled
  /\ signalled # {}
  /\ \E base \in pkgBuildDirs : invoked[base] = 0

\* The phases Run called are the first ones of PrepPhases.
PhasesInOrder ==
  Len(phases) <= Len(PrepPhases) /\ phases = SubSeq(PrepPhases, 1, Len(phases))

\* Install was called, or something that follows it in Run happened.
InstallReached ==
  calls # <<>> \/ pc # "new" \/ vcsUpdates # <<>> \/ hooksRun # <<>>

\* C35: Run calls the preparation phases in the order preparer.Run, SRCINFO
\* parsing, incompatible packages, their confirmation, PGP key check; the
\* installer issues an invocation only after all of them returned nil (and
\* the user did not decline), and when one of them fails Run returns its
\* error alone: Install is not called, the store is not notified and no
\* hook is run.
C35_PreparationGate ==
  /\ PhasesInOrder
  /\ InstallReached =>
       /\ phases = <<"prepare", "srcinfo", "incompatible", "confirm", "pgp">>
       /\ prep.fail = "none"
       /\ prep.incompatible => prep.answer
  /\ (runPc = "returned" /\ Len(targets) > 0
        /\ (prep.fail # "none" \/ (prep.incompatible /\ ~prep.answer))) =>
       /\ ~InstallReached
       /\ Len(runResult) = 1
       /\ runResult[1].kind = (IF prep.fail \in {"prepare", "srcinfo", "incompatible"}
                               THEN prep.fail
                               ELSE IF prep.incompatible /\ ~prep.answer THEN "ErrUserAbort"
                               ELSE "pgp")
       /\ phases[Len(phases)] = (IF runResult[1].kind = "ErrUserAbort" THEN "confirm"
                                 ELSE runResult[1].kind)

\* Run returned the error of the PGP key check, the last phase, with a hook
\* registered and never run; or the user declined the incompatible packages.
C35_Witness ==
  /\ runPc = "returned"
  /\ postInstallHooks # <<>>
  /\ ~InstallReached
  /\ \/ prep.fail = "pgp" /\ runResult = <<RunErr("pgp", {}, <<>>)>> /\ Len(phases) = 5
     \/ runResult = <<RunErr("ErrUserAbort", {}, <<>>)>> /\ Len(phases) = 4

\* C36: with no layer Run returns nil at once: no preparation phase is
\* called, no hook is registered or run, Install is not called and the store
\* is not notified.
C36_NothingToDo ==
  Len(targets) = 0 =>
    /\ runPc \in {"start", "returned"}
    /\ runResult = <<>>
    /\ phases = <<>>
    /\ postInstallHooks = <<>>
    /\ ~InstallReached

\* Run returned for an empty list of layers, in a run whose preparation
\* would have failed and whose clean-up functions were there to register.
C36_Witness ==
  /\ Len(targets) = 0
  /\ runPc = "returned"
  /\ prep.fail = "prepare"
  /\ cleanFuncs # {}

\* The place in calls of the first package-manager invocation, 0 if none.
FirstPacman ==
  IF \E k \in 1..Len(calls) : calls[k].kind \in {"S", "U", "D"}
  THEN CHOOSE k \in 1..Len(calls) :
         /\ calls[k].kind \in {"S", "U", "D"}
         /\ \A j \in 1..(k - 1) : calls[j].kind \notin {"S", "U", "D"}
  ELSE 0

\* C37: when Install is called with the arguments u and upgrades and the
\* layer handled first holds a repository package, the first package-manager
\* invocation is the pacman -S of that layer, and it carries -u --upgrades in
\* the target modes Any and Repo and not in the target mode AUR; without the
\* arguments no pacman -S carries them.
C37_Sysupgrade ==
  /\ (FirstPacman # 0 /\ SyncNames(targets[Len(targets)]) # {}) =>
       /\ calls[FirstPacman].kind = "S"
       /\ FirstPacman = 1
       /\ (sysupgrade /\ targetMode \in {"ModeAny", "ModeRepo"}) =>
            calls[1].flag = "-u --upgrades"
       /\ (sysupgrade /\ targetMode = "ModeAUR") => calls[1].flag = ""
  /\ \A k \in 1..Len(calls) :
       (calls[k].kind = "S" /\ ~sysupgrade) => calls[k].flag = ""

\* Install returned nil after a pacman -S of core/linux, called with the
\* arguments in the target mode AUR.
C37_Witness ==
  /\ sysupgrade
  /\ targetMode = "ModeAUR"
  /\ Done /\ result = "nil"
  /\ calls # <<>>
  /\ calls[1].kind = "S"
  /\ calls[1].targets = {"core/linux"}

\* The packages a package leads to in one step: those its dependencies
\* (and, unless removeOptional, its optional dependencies) stand for.
LeadsTo(p) ==
  UNION {IF d \in LocalNames THEN {d} ELSE {q \in LocalNames : <<q, d>> \in hangIn.provides} :
           d \in {e[2] : e \in {x \in hangIn.depends
                                  \cup (IF hangIn.removeOptional THEN {} ELSE hangIn.optdepends) :
                                x[1] = p}}}

\* The packages reached from a set in at most n steps.
RECURSIVE ReachedFrom(_, _)
ReachedFrom(S, n) ==
  IF n = 0 THEN S ELSE ReachedFrom(S \cup UNION {LeadsTo(p) : p \in S}, n - 1)

\* The packages needed by the system: the explicit ones and those reached
\* from them.
Needed == ReachedFrom(hangIn.explicit, Cardinality(LocalNames))

\* C38: hangingPackages returns, each once, exactly the local packages that
\* are not explicit and not reached from an explicit package through
\* dependencies (and optional dependencies unless removeOptional), a name
\* that is no local package standing for every package that provides it; an
\* explicit package is never returned; the state of a package never
\* decreases and stays within 0..2; and the call returns.
C38_HangingPackages ==
  /\ [](hangPc = "returned" =>
          /\ {hanging[k] : k \in 1..Len(hanging)} = LocalNames \ Needed
          /\ \A j, k \in 1..Len(hanging) : hanging[j] = hanging[k] => j = k
          /\ \A k \in 1..Len(hanging) : hanging[k] \notin hangIn.explicit)
  /\ [](\A p \in LocalNames : safePackages[p] \in 0..2)
  /\ [][\A p \in LocalNames : safePackages'[p] >= safePackages[p]]_vars
  /\ <>(hangPc = "returned")

\* app is explicit and depends on sh, which lib provides and which is no
\* package; lib has tool as an optional dependency and removeOptional is
\* set: tool is returned, lib is not.
C38_Witness ==
  /\ hangPc = "returned"
  /\ hangIn.explicit = {"app"}
  /\ <<"app", "sh">> \in hangIn.depends
  /\ <<"lib", "sh">> \in hangIn.provides
  /\ <<"lib", "tool">> \in hangIn.optdepends
  /\ hangIn.removeOptional
  /\ hanging = <<"tool">>

\* The targets of the call that the returned map has no entry for.
AbsentTargets == {dlTargets[k] : k \in DOMAIN dlTargets} \ MapKeys(dlResult.cloned)

\* C39 as stated: getPkgbuilds and printPkgbuilds return an error if and
\* only if a target of the call has no entry in the map the download
\* returned, and then the warning lists exactly the targets without one.
C39_Stated ==
  getOut.done =>
    /\ getOut.err # "nil" <=> AbsentTargets # {}
    /\ getOut.warned =>
         /\ {getOut.missing[k] : k \in DOMAIN getOut.missing} = AbsentTargets
         /\ getOut.missing # <<>>

\* A target given twice was downloaded, the map has an entry for every
\* target, and the function warned of an empty list and returned an error.
C39_Witness ==
  /\ getOut.done
  /\ dlTargets = <<"yippee", "yippee">>
  /\ AbsentTargets = {}
  /\ getOut.err = "error"
  /\ getOut.warned
  /\ getOut.missing = <<>>

====
